---- MODULE Spec2Model ----
(***************************************************************************)
(* Model of the chat-process handler of the merger planner API             *)
(* (api/chat-process/index.js): the completion gateway                     *)
(* getChatCompletionsWithFallback, the discovery extraction and merge, the *)
(* completion-criteria check and the read ... replace of the session       *)
(* document; and of the other handlers on the session and configuration    *)
(* documents: discovery-update, file-ingest, plan-generate, the plan       *)
(* history handlers and admin-config-set.  JavaScript objects are          *)
(* functions whose domain is the set of present properties; strings that   *)
(* the code inspects (toLowerCase, includes) are sequences of              *)
(* one-character strings.                                                  *)
(***************************************************************************)
EXTENDS Integers, Sequences, FiniteSets, TLC

VARIABLES store, configStore, pc, req, cfg, snapshot, session, gw,
          response, extractionText, discoveryData, categoryComplete,
          res, ops, turns, systemPrompt

vars == <<store, configStore, pc, req, cfg, snapshot, session, gw,
          response, extractionText, discoveryData, categoryComplete,
          res, ops, turns, systemPrompt>>

(***************************************************************************)
(* Bounds                                                                  *)
(***************************************************************************)
\* number of chat turns that may be started in one behaviour
MaxTurns == 2

\* concurrent handler invocations
Procs == {"t1", "t2"}

(***************************************************************************)
(* JavaScript values                                                       *)
(***************************************************************************)
\* an optional value: null / undefined is the empty tuple
None == <<>>
Some(v) == <<v>>
IsSome(o) == Len(o) = 1
Val(o) == o[1]

\* the session store is a reliable read / replace service: a read or replace
\* fails only for an id that is not stored; the completion service may fail
\* on any call

\* the empty object {}
EmptyObj == [k \in {} |-> 0]

Has(o, k) == k \in DOMAIN o

\* o[k] || d
GetOr(o, k, d) == IF Has(o, k) THEN o[k] ELSE d

\* o[k] = v on an object that may not have k yet
Put(o, k, v) == [x \in (DOMAIN o) \cup {k} |-> IF x = k THEN v ELSE o[x]]

\* fact values are numbers; 0 is the falsy one
Truthy(v) == v # 0

\* a || b on strings
OrStr(a, b) == IF a # "" THEN a ELSE b

UpperCase == <<"A","B","C","D","E","F","G","H","I","J","K","L","M",
               "N","O","P","Q","R","S","T","U","V","W","X","Y","Z">>
LowerCase == <<"a","b","c","d","e","f","g","h","i","j","k","l","m",
               "n","o","p","q","r","s","t","u","v","w","x","y","z">>

toLowerChar(c) ==
    IF \E i \in 1..26 : UpperCase[i] = c
    THEN LowerCase[CHOOSE i \in 1..26 : UpperCase[i] = c]
    ELSE c

\* String.prototype.toLowerCase
toLowerCase(s) == [i \in 1..Len(s) |-> toLowerChar(s[i])]

\* String.prototype.includes
includes(s, sub) ==
    \E i \in 0..(Len(s) - Len(sub)) : \A j \in 1..Len(sub) : s[i + j] = sub[j]

(***************************************************************************)
(* Inputs and outcomes of the external services                            *)
(***************************************************************************)
wDeployment == <<"d","e","p","l","o","y","m","e","n","t">>
wDoesNotExist == <<"d","o","e","s"," ","n","o","t"," ","e","x","i","s","t">>

\* "Deployment does not exist": what the service answers for an unknown deployment
errMissing == <<"D","e","p","l","o","y","m","e","n","t"," ">> \o wDoesNotExist
\* "401 denied": an authentication failure
errAuth == <<"4","0","1"," ","d","e","n","i","e","d">>
\* "deployment busy": names a deployment, but it exists
errBusy == wDeployment \o <<" ","b","u","s","y">>
\* "No OpenAI deployment configured. ..." (index.js:31), shortened after the first words
errNoDeployment == <<"N","o"," ","O","p","e","n","A","I"," ">> \o wDeployment
                     \o <<" ","c","o","n","f","i","g","u","r","e","d">>

ServiceErrors == {errMissing, errAuth, errBusy}

\* the assistant's reply text
Replies == {<<"h","i">>}

\* user messages: "Done" and "ok next" carry a signal, "ok" and "finish" do not
msgDone == <<"D","o","n","e">>
msgNext == <<"o","k"," ","n","e","x","t">>
msgOk == <<"o","k">>
msgFinish == <<"f","i","n","i","s","h">>
UserMessages == {msgDone, msgNext, msgOk, msgFinish}

\* "finance" is a category the code has no built-in prompt for
Categories == {"infrastructure", "security", "finance"}
SessionIds == {"s1", "s2"}

\* extraction outputs of the model: text that is not JSON, or the JSON text of an object
notJson == [kind |-> "invalid"]
JsonOf(m) == [kind |-> "object", value |-> m]
factsName == [k \in {"company_name"} |-> 1]
factsUsers == [k \in {"company_name", "total_users"} |-> IF k = "company_name" THEN 0 ELSE 2]
factsServers == [k \in {"total_users", "server_count"} |-> IF k = "total_users" THEN 1 ELSE 2]
ExtractionTexts == {notJson, JsonOf(EmptyObj), JsonOf(factsName), JsonOf(factsUsers),
                    JsonOf(factsServers)}

\* deployment names; "" is an unset one
envDeployment == ""
Deployments == {"", "gpt-4.1-mini", "gpt-5"}

(***************************************************************************)
(* Completion gateway: getChatCompletionsWithFallback                      *)
(***************************************************************************)
\* the test on the message as thrown, without lowercasing it
missingDeployment_caseSensitive(message) ==
    /\ includes(message, wDeployment)
    /\ includes(message, wDoesNotExist)

\* index.js:37-38
missingDeployment(message) ==
    /\ includes(toLowerCase(message), wDeployment)
    /\ includes(toLowerCase(message), wDoesNotExist)

\* the retry condition without the test that the fallback is another deployment
shouldFallback_sameDeployment(message, primaryDeployment, fallbackDeployment) ==
    /\ missingDeployment(message)
    /\ fallbackDeployment # ""
    /\ primaryDeployment # ""

\* index.js:40, the condition of the single retry
shouldFallback(message, primaryDeployment, fallbackDeployment) ==
    /\ missingDeployment(message)
    /\ fallbackDeployment # ""
    /\ primaryDeployment # ""
    /\ fallbackDeployment # primaryDeployment

NoCall == [phase |-> "none", primary |-> "", fallback |-> "", label |-> "",
           calls |-> <<>>, warns |-> <<>>, answers |-> <<>>, result |-> <<>>]

\* the entry without the check of line 30: the call is made whatever the names
GwInvoke_callsUnnamed(primaryDeployment, fallbackDeployment, label) ==
    [NoCall EXCEPT !.primary = primaryDeployment,
                   !.fallback = fallbackDeployment,
                   !.label = label,
                   !.phase = "call1",
                   !.calls = <<OrStr(primaryDeployment, fallbackDeployment)>>]

\* index.js:29-35: entry of the gateway up to its first await
GwInvoke(primaryDeployment, fallbackDeployment, label) ==
    LET f == [NoCall EXCEPT !.primary = primaryDeployment,
                            !.fallback = fallbackDeployment,
                            !.label = label]
    IN IF primaryDeployment = "" /\ fallbackDeployment = ""
       THEN \* the throw of line 31 lands in the catch of line 36 and is rethrown
            IF shouldFallback(errNoDeployment, primaryDeployment, fallbackDeployment)
            THEN [f EXCEPT !.phase = "call2", !.calls = <<fallbackDeployment>>]
            ELSE [f EXCEPT !.phase = "threw", !.result = errNoDeployment]
       ELSE [f EXCEPT !.phase = "call1",
                      !.calls = <<OrStr(primaryDeployment, fallbackDeployment)>>]

\* what the service answered, in order (kept to state what the gateway returns)
Answer(ok, text) == [ok |-> ok, text |-> text]

\* index.js:35-45: the first call settles
GwFirstSettled(f, ok, text) ==
    LET g == [f EXCEPT !.answers = Append(@, Answer(ok, text))]
    IN IF ok
       THEN [g EXCEPT !.phase = "returned", !.result = text]
       ELSE IF shouldFallback(text, f.primary, f.fallback)
            THEN [g EXCEPT !.phase = "call2",
                           !.warns = Append(@, [primary |-> f.primary,
                                                fallback |-> f.fallback,
                                                label |-> f.label]),
                           !.calls = Append(@, f.fallback)]
            ELSE [g EXCEPT !.phase = "threw", !.result = text]

\* index.js:42: the fallback call settles
GwSecondSettled(f, ok, text) ==
    LET g == [f EXCEPT !.answers = Append(@, Answer(ok, text))]
    IN IF ok
       THEN [g EXCEPT !.phase = "returned", !.result = text]
       ELSE [g EXCEPT !.phase = "threw", !.result = text]

GwSettled(f) == f.phase \in {"returned", "threw"}

\* what the completion service may answer to the call in flight
Answers(label) == IF label = "extraction" THEN ExtractionTexts ELSE Replies

(***************************************************************************)
(* Configuration documents (container Configurations)                      *)
(***************************************************************************)
cfgCriteria ==
    [globalSettings |-> [aiModel |-> "gpt-5"],
     categories |-> <<
        [id |-> "infrastructure",
         extractionPrompt |-> "List the servers and the company name.",
         completionCriteria |-> [minFacts |-> 2, requiredFields |-> <<"company_name">>]],
        [id |-> "security",
         completionCriteria |-> [minFacts |-> 0]] >>]

cfgDefaults ==
    [categories |-> <<
        [id |-> "infrastructure",
         completionCriteria |-> [requiredFields |-> <<>>]],
        [id |-> "security", name |-> "Security"] >>]

ConfigDocs == {[id |-> "discovery_config", data |-> cfgCriteria],
               [id |-> "discovery_config", data |-> cfgDefaults]}

\* index.js:13-23: the config document's data, null when it cannot be read
loadConfig(configs) ==
    IF Has(configs, "discovery_config") THEN Some(configs["discovery_config"].data)
    ELSE None

\* index.js:53
defaultDeployment == OrStr(envDeployment, "gpt-4.1-mini")

\* index.js:69-71: config?.globalSettings?.aiModel || defaultDeployment
deploymentName(config) ==
    IF /\ IsSome(config)
       /\ Has(Val(config), "globalSettings")
       /\ Has(Val(config).globalSettings, "aiModel")
    THEN OrStr(Val(config).globalSettings.aiModel, defaultDeployment)
    ELSE defaultDeployment

\* index.js:80: config?.categories?.find(c => c.id === category)
categoryConfig(config, category) ==
    IF IsSome(config) /\ Has(Val(config), "categories")
    THEN LET cs == Val(config).categories
             hits == {i \in 1..Len(cs) : cs[i].id = category}
         IN IF hits = {} THEN None
            ELSE Some(cs[CHOOSE i \in hits : \A j \in hits : i <= j])
    ELSE None

\* index.js:5-11, each prompt cut after its first sentence
defaultCategoryPrompts ==
    [c \in {"infrastructure", "application", "data", "security", "communication"} |->
        CASE c = "infrastructure" -> "You are an IT infrastructure discovery assistant."
          [] c = "application" -> "You are an application portfolio discovery assistant."
          [] c = "data" -> "You are a data discovery assistant."
          [] c = "security" -> "You are a security discovery assistant."
          [] c = "communication" -> "You are a communication systems discovery assistant."]

genericPrompt == "You are an M&A onboarding assistant."

\* the prompt resolution without the built-in table
resolveSystemPrompt_genericOnly(config, category) ==
    LET cc == categoryConfig(config, category)
        configured == IF IsSome(cc) /\ Has(Val(cc), "extractionPrompt")
                      THEN Val(cc).extractionPrompt ELSE ""
    IN OrStr(configured, genericPrompt)

\* index.js:81: categoryConfig?.extractionPrompt || defaultCategoryPrompts[category] || generic
resolveSystemPrompt(config, category) ==
    LET cc == categoryConfig(config, category)
        configured == IF IsSome(cc) /\ Has(Val(cc), "extractionPrompt")
                      THEN Val(cc).extractionPrompt ELSE ""
    IN OrStr(configured,
             OrStr(GetOr(defaultCategoryPrompts, category, ""), genericPrompt))

\* index.js:160: categoryConfig?.completionCriteria
completionCriteria(config, category) ==
    LET cc == categoryConfig(config, category)
    IN IF IsSome(cc) /\ Has(Val(cc), "completionCriteria")
       THEN Some(Val(cc).completionCriteria)
       ELSE None

(***************************************************************************)
(* Discovery merge and completion check                                    *)
(***************************************************************************)
\* a merge that accumulates: a key present on both sides gets the sum
Merge_sumsShared(existing, extracted) ==
    [k \in (DOMAIN existing) \cup (DOMAIN extracted) |->
        IF k \in DOMAIN extracted
        THEN IF k \in DOMAIN existing THEN existing[k] + extracted[k] ELSE extracted[k]
        ELSE existing[k]]

\* the spread written the other way round: { ...extracted, ...existing }
Merge_existingWins(existing, extracted) ==
    [k \in (DOMAIN existing) \cup (DOMAIN extracted) |->
        IF k \in DOMAIN existing THEN existing[k] ELSE extracted[k]]

\* index.js:149-152: { ...existing, ...extracted }
Merge(existing, extracted) ==
    [k \in (DOMAIN existing) \cup (DOMAIN extracted) |->
        IF k \in DOMAIN extracted THEN extracted[k] ELSE existing[k]]

\* the test without the count of keys: any parsed object is merged
hasNewFacts_anyObject(text) == text.kind = "object"

\* index.js:147: extracted && Object.keys(extracted).length > 0
hasNewFacts(text) == text.kind = "object" /\ DOMAIN text.value # {}

\* the assignment made before the parse is known to have succeeded: a text
\* that does not parse leaves an empty mapping behind
AfterExtraction_clearsOnParseError(sess, category, settled) ==
    IF settled.phase = "returned" /\ hasNewFacts(settled.result)
    THEN [sess EXCEPT !.discoveryData =
            Put(@, category,
                Merge(GetOr(@, category, EmptyObj), settled.result.value))]
    ELSE IF settled.phase = "returned" /\ settled.result.kind = "invalid"
         THEN [sess EXCEPT !.discoveryData = Put(@, category, EmptyObj)]
         ELSE sess

\* index.js:146-157: the session after the extraction try block; settled is
\* the gateway frame of the extraction call
AfterExtraction(sess, category, settled) ==
    IF settled.phase = "returned" /\ hasNewFacts(settled.result)
    THEN [sess EXCEPT !.discoveryData =
            Put(@, category,
                Merge(GetOr(@, category, EmptyObj), settled.result.value))]
    ELSE sess

\* the response carrying the extracted facts only
ResponseFacts_newOnly(sess, category, settled) ==
    IF settled.phase = "returned" /\ hasNewFacts(settled.result)
    THEN Some(settled.result.value)
    ELSE None

\* index.js:120,153: the discoveryData of the response
ResponseFacts(sess, category, settled) ==
    IF settled.phase = "returned" /\ hasNewFacts(settled.result)
    THEN Some(AfterExtraction(sess, category, settled).discoveryData[category])
    ELSE None

\* index.js:161-165
userSignaledDone(message) ==
    LET normalizedMessage == toLowerCase(message)
    IN \/ includes(normalizedMessage, <<"d","o","n","e">>)
       \/ includes(normalizedMessage, <<"c","o","m","p","l","e","t","e">>)
       \/ includes(normalizedMessage, <<"f","i","n","i","s","h","e","d">>)
       \/ includes(normalizedMessage, <<"n","e","x","t">>)

\* index.js:168
factCount(sess, category) ==
    Cardinality(DOMAIN GetOr(sess.discoveryData, category, EmptyObj))

\* index.js:169-171: requiredFields?.every(field => facts?.[field]) ?? true
hasRequiredFields(criteria, sess, category) ==
    IF Has(criteria, "requiredFields")
    THEN \A i \in 1..Len(criteria.requiredFields) :
            LET field == criteria.requiredFields[i]
                facts == GetOr(sess.discoveryData, category, EmptyObj)
            IN Has(facts, field) /\ Truthy(facts[field])
    ELSE TRUE

\* index.js:174: completionCriteria.minFacts || 3
minFactsOf(criteria) ==
    IF Has(criteria, "minFacts") /\ Truthy(criteria.minFacts)
    THEN criteria.minFacts ELSE 3

\* the criteria branch without the explicit user signal
isComplete_factsAlone(config, sess, category, message) ==
    LET criteria == completionCriteria(config, category)
    IN IF IsSome(criteria)
       THEN /\ factCount(sess, category) >= minFactsOf(Val(criteria))
            /\ hasRequiredFields(Val(criteria), sess, category)
       ELSE userSignaledDone(message)

\* the keyword fallback asking for the default three facts as well
isComplete_fallbackNeedsFacts(config, sess, category, message) ==
    LET criteria == completionCriteria(config, category)
    IN IF IsSome(criteria)
       THEN /\ userSignaledDone(message)
            /\ factCount(sess, category) >= minFactsOf(Val(criteria))
            /\ hasRequiredFields(Val(criteria), sess, category)
       ELSE userSignaledDone(message) /\ factCount(sess, category) >= 3

\* index.js:159-182
isComplete(config, sess, category, message) ==
    LET criteria == completionCriteria(config, category)
    IN IF IsSome(criteria)
       THEN /\ userSignaledDone(message)
            /\ factCount(sess, category) >= minFactsOf(Val(criteria))
            /\ hasRequiredFields(Val(criteria), sess, category)
       ELSE userSignaledDone(message)

(***************************************************************************)
(* State                                                                   *)
(***************************************************************************)
\* the document session-init creates (session-init/index.js:24-32)
NewSession(id) ==
    [id |-> id, discoveryData |-> EmptyObj, messages |-> <<>>, status |-> "active"]

errTypeError == <<"T","y","p","e","E","r","r","o","r">>

NoRequest == [sessionId |-> "", message |-> <<>>, category |-> ""]
NoResponse == [status |-> 0]

Entry(role, content) == [role |-> role, content |-> content]

\* the two entries pushed in the other order
push_assistantFirst(messages, message, reply) ==
    messages \o <<Entry("assistant", reply), Entry("user", message)>>

\* the list rebuilt from the turn's two entries instead of extended
push_startsOver(messages, message, reply) ==
    <<Entry("user", message), Entry("assistant", reply)>>

\* index.js:114-117: session.messages.push(user entry, assistant entry)
push(messages, message, reply) ==
    messages \o <<Entry("user", message), Entry("assistant", reply)>>

\* index.js:86-91
Normalize(doc) ==
    LET withMessages == IF Has(doc, "messages") THEN doc ELSE Put(doc, "messages", <<>>)
    IN IF Has(withMessages, "discoveryData") THEN withMessages
       ELSE Put(withMessages, "discoveryData", EmptyObj)

Locals ==
    /\ req = [p \in Procs |-> NoRequest]
    /\ cfg = [p \in Procs |-> None]
    /\ snapshot = [p \in Procs |-> None]
    /\ session = [p \in Procs |-> None]
    /\ gw = [p \in Procs |-> NoCall]
    /\ response = [p \in Procs |-> None]
    /\ extractionText = [p \in Procs |-> None]
    /\ discoveryData = [p \in Procs |-> None]
    /\ categoryComplete = [p \in Procs |-> FALSE]
    /\ res = [p \in Procs |-> NoResponse]
    /\ ops = [p \in Procs |-> <<>>]
    /\ systemPrompt = [p \in Procs |-> ""]
    /\ turns = 0

Stores ==
    /\ store = [s \in {"s1"} |-> NewSession(s)]
    /\ configStore \in {[k \in {} |-> 0]}
                        \cup {[k \in {"discovery_config"} |-> d] : d \in ConfigDocs}

Init ==
    /\ Stores
    /\ pc = [p \in Procs |-> "idle"]
    /\ Locals

(***************************************************************************)
(* The chat turn, one action per awaited step of module.exports            *)
(***************************************************************************)
\* index.js:195-202: the catch of the handler
Fail(p, details) ==
    /\ res' = [res EXCEPT ![p] =
                 [status |-> 500,
                  body |-> [error |-> "Failed to process chat message",
                            details |-> details]]]
    /\ pc' = [pc EXCEPT ![p] = "done"]

\* the turn that starts with the completion flag the last turn left
TurnStart_keepsComplete(p) ==
    /\ pc[p] \in {"idle", "done"}
    /\ turns < MaxTurns
    /\ \E sid \in SessionIds, m \in UserMessages, c \in Categories :
          req' = [req EXCEPT ![p] = [sessionId |-> sid, message |-> m, category |-> c]]
    /\ pc' = [pc EXCEPT ![p] = "loadConfig"]
    /\ cfg' = [cfg EXCEPT ![p] = None]
    /\ snapshot' = [snapshot EXCEPT ![p] = None]
    /\ session' = [session EXCEPT ![p] = None]
    /\ gw' = [gw EXCEPT ![p] = NoCall]
    /\ response' = [response EXCEPT ![p] = None]
    /\ extractionText' = [extractionText EXCEPT ![p] = None]
    /\ discoveryData' = [discoveryData EXCEPT ![p] = None]
    /\ UNCHANGED categoryComplete
    /\ res' = [res EXCEPT ![p] = NoResponse]
    /\ ops' = [ops EXCEPT ![p] = <<>>]
    /\ turns' = turns + 1
    /\ systemPrompt' = [systemPrompt EXCEPT ![p] = ""]
    /\ UNCHANGED <<store, configStore>>

\* index.js:49-65: a request arrives and the configuration read is issued
TurnStart(p) ==
    /\ pc[p] \in {"idle", "done"}
    /\ turns < MaxTurns
    /\ \E sid \in SessionIds, m \in UserMessages, c \in Categories :
          req' = [req EXCEPT ![p] = [sessionId |-> sid, message |-> m, category |-> c]]
    /\ pc' = [pc EXCEPT ![p] = "loadConfig"]
    /\ cfg' = [cfg EXCEPT ![p] = None]
    /\ snapshot' = [snapshot EXCEPT ![p] = None]
    /\ session' = [session EXCEPT ![p] = None]
    /\ gw' = [gw EXCEPT ![p] = NoCall]
    /\ response' = [response EXCEPT ![p] = None]
    /\ extractionText' = [extractionText EXCEPT ![p] = None]
    /\ discoveryData' = [discoveryData EXCEPT ![p] = None]
    /\ categoryComplete' = [categoryComplete EXCEPT ![p] = FALSE]
    /\ res' = [res EXCEPT ![p] = NoResponse]
    /\ ops' = [ops EXCEPT ![p] = <<>>]
    /\ turns' = turns + 1
    /\ systemPrompt' = [systemPrompt EXCEPT ![p] = ""]
    /\ UNCHANGED <<store, configStore>>

\* index.js:65-83: the configuration is loaded and the session read is issued
ConfigLoaded(p) ==
    /\ pc[p] = "loadConfig"
    /\ cfg' = [cfg EXCEPT ![p] = loadConfig(configStore)]
    /\ systemPrompt' = [systemPrompt EXCEPT ![p] =
          resolveSystemPrompt(loadConfig(configStore), req[p].category)]
    /\ pc' = [pc EXCEPT ![p] = "read"]
    /\ UNCHANGED <<store, configStore, req, snapshot, session, gw, response,
                   extractionText, discoveryData, categoryComplete, res, ops, turns>>

\* the read without the defaults for missing fields: a document lacking
\* messages or discoveryData makes the handler throw
SessionRead_noDefaults(p) ==
    /\ pc[p] = "read"
    /\ ops' = [ops EXCEPT ![p] = Append(@, "read")]
    /\ IF /\ Has(store, req[p].sessionId)
          /\ Has(store[req[p].sessionId], "messages")
          /\ Has(store[req[p].sessionId], "discoveryData")
       THEN /\ snapshot' = [snapshot EXCEPT ![p] = Some(store[req[p].sessionId])]
            /\ session' = [session EXCEPT ![p] = Some(Normalize(store[req[p].sessionId]))]
            /\ gw' = [gw EXCEPT ![p] =
                        GwInvoke(deploymentName(cfg[p]), defaultDeployment, "main")]
            /\ pc' = [pc EXCEPT ![p] = "reply"]
            /\ UNCHANGED res
       ELSE \* resource is undefined and session.messages throws
            /\ Fail(p, errTypeError)
            /\ UNCHANGED <<snapshot, session, gw>>
    /\ UNCHANGED <<store, configStore, req, cfg, response, extractionText,
                   discoveryData, categoryComplete, turns, systemPrompt>>

\* index.js:83-110: the session read settles; the reply completion is requested
SessionRead(p) ==
    /\ pc[p] = "read"
    /\ ops' = [ops EXCEPT ![p] = Append(@, "read")]
    /\ IF Has(store, req[p].sessionId)
       THEN /\ snapshot' = [snapshot EXCEPT ![p] = Some(store[req[p].sessionId])]
            /\ session' = [session EXCEPT ![p] = Some(Normalize(store[req[p].sessionId]))]
            /\ gw' = [gw EXCEPT ![p] =
                        GwInvoke(deploymentName(cfg[p]), defaultDeployment, "main")]
            /\ pc' = [pc EXCEPT ![p] = "reply"]
            /\ UNCHANGED res
       ELSE \* resource is undefined and session.messages throws
            /\ Fail(p, errTypeError)
            /\ UNCHANGED <<snapshot, session, gw>>
    /\ UNCHANGED <<store, configStore, req, cfg, response, extractionText,
                   discoveryData, categoryComplete, turns, systemPrompt>>

\* index.js:35: the completion service answers the gateway's first call
GwFirstCall(p) ==
    /\ gw[p].phase = "call1"
    /\ \/ \E text \in Answers(gw[p].label) :
             gw' = [gw EXCEPT ![p] = GwFirstSettled(@, TRUE, text)]
       \/ \E message \in ServiceErrors :
             gw' = [gw EXCEPT ![p] = GwFirstSettled(@, FALSE, message)]
    /\ UNCHANGED <<store, configStore, pc, req, cfg, snapshot, session, response,
                   extractionText, discoveryData, categoryComplete, res, ops, turns, systemPrompt>>

\* index.js:42: the completion service answers the fallback call
GwFallbackCall(p) ==
    /\ gw[p].phase = "call2"
    /\ \/ \E text \in Answers(gw[p].label) :
             gw' = [gw EXCEPT ![p] = GwSecondSettled(@, TRUE, text)]
       \/ \E message \in ServiceErrors :
             gw' = [gw EXCEPT ![p] = GwSecondSettled(@, FALSE, message)]
    /\ UNCHANGED <<store, configStore, pc, req, cfg, snapshot, session, response,
                   extractionText, discoveryData, categoryComplete, res, ops, turns, systemPrompt>>

\* the turn with a save right after the two messages are pushed
Replied_savesMessages(p) ==
    /\ pc[p] = "reply"
    /\ GwSettled(gw[p])
    /\ ops' = [ops EXCEPT ![p] = Append(@, "reply")]
    /\ IF gw[p].phase = "returned"
       THEN /\ response' = [response EXCEPT ![p] = Some(gw[p].result)]
            /\ session' = [session EXCEPT ![p] =
                  Some([Val(@) EXCEPT !.messages =
                          push(@, req[p].message, gw[p].result)])]
            /\ gw' = [gw EXCEPT ![p] =
                        GwInvoke(deploymentName(cfg[p]), defaultDeployment, "extraction")]
            /\ pc' = [pc EXCEPT ![p] = "extract"]
            /\ store' = [store EXCEPT ![req[p].sessionId] = Val(session'[p])]
            /\ UNCHANGED res
       ELSE /\ Fail(p, gw[p].result)
            /\ UNCHANGED <<response, session, gw, store>>
    /\ UNCHANGED <<configStore, req, cfg, snapshot, extractionText,
                   discoveryData, categoryComplete, turns, systemPrompt>>

\* the extraction requested only when the message carries a completion signal
Replied_extractsOnSignal(p) ==
    /\ pc[p] = "reply"
    /\ GwSettled(gw[p])
    /\ ops' = [ops EXCEPT ![p] = Append(@, "reply")]
    /\ IF gw[p].phase = "returned"
       THEN /\ response' = [response EXCEPT ![p] = Some(gw[p].result)]
            /\ session' = [session EXCEPT ![p] =
                  Some([Val(@) EXCEPT !.messages =
                          push(@, req[p].message, gw[p].result)])]
            /\ gw' = [gw EXCEPT ![p] =
                        IF userSignaledDone(req[p].message)
                        THEN GwInvoke(deploymentName(cfg[p]), defaultDeployment, "extraction")
                        ELSE [NoCall EXCEPT !.phase = "returned",
                                            !.result = JsonOf(EmptyObj)]]
            /\ pc' = [pc EXCEPT ![p] = "extract"]
            /\ UNCHANGED res
       ELSE /\ Fail(p, gw[p].result)
            /\ UNCHANGED <<response, session, gw>>
    /\ UNCHANGED <<store, configStore, req, cfg, snapshot, extractionText,
                   discoveryData, categoryComplete, turns, systemPrompt>>

\* the replace requested without awaiting the extraction call
Replied_doesNotAwaitExtraction(p) ==
    /\ pc[p] = "reply"
    /\ GwSettled(gw[p])
    /\ ops' = [ops EXCEPT ![p] = Append(@, "reply")]
    /\ IF gw[p].phase = "returned"
       THEN /\ response' = [response EXCEPT ![p] = Some(gw[p].result)]
            /\ session' = [session EXCEPT ![p] =
                  Some([Val(@) EXCEPT !.messages =
                          push(@, req[p].message, gw[p].result)])]
            /\ gw' = [gw EXCEPT ![p] =
                        GwInvoke(deploymentName(cfg[p]), defaultDeployment, "extraction")]
            /\ pc' = [pc EXCEPT ![p] = "replace"]
            /\ UNCHANGED res
       ELSE /\ Fail(p, gw[p].result)
            /\ UNCHANGED <<response, session, gw>>
    /\ UNCHANGED <<store, configStore, req, cfg, snapshot, extractionText,
                   discoveryData, categoryComplete, turns, systemPrompt>>

\* index.js:99-144: the reply is there; messages are pushed and the extraction requested
Replied(p) ==
    /\ pc[p] = "reply"
    /\ GwSettled(gw[p])
    /\ ops' = [ops EXCEPT ![p] = Append(@, "reply")]
    /\ IF gw[p].phase = "returned"
       THEN /\ response' = [response EXCEPT ![p] = Some(gw[p].result)]
            /\ session' = [session EXCEPT ![p] =
                  Some([Val(@) EXCEPT !.messages =
                          push(@, req[p].message, gw[p].result)])]
            /\ gw' = [gw EXCEPT ![p] =
                        GwInvoke(deploymentName(cfg[p]), defaultDeployment, "extraction")]
            /\ pc' = [pc EXCEPT ![p] = "extract"]
            /\ UNCHANGED res
       ELSE /\ Fail(p, gw[p].result)
            /\ UNCHANGED <<response, session, gw>>
    /\ UNCHANGED <<store, configStore, req, cfg, snapshot, extractionText,
                   discoveryData, categoryComplete, turns, systemPrompt>>

\* the completion check made on the session as it was before the merge
Extracted_checksBeforeMerge(p) ==
    /\ pc[p] = "extract"
    /\ GwSettled(gw[p])
    /\ ops' = [ops EXCEPT ![p] = Append(@, "extract")]
    /\ LET after == AfterExtraction(Val(session[p]), req[p].category, gw[p])
       IN /\ session' = [session EXCEPT ![p] = Some(after)]
          /\ discoveryData' = [discoveryData EXCEPT ![p] =
                ResponseFacts(Val(session[p]), req[p].category, gw[p])]
          /\ categoryComplete' = [categoryComplete EXCEPT ![p] =
                isComplete(cfg[p], Val(session[p]), req[p].category, req[p].message)]
    /\ extractionText' = [extractionText EXCEPT ![p] =
          IF gw[p].phase = "returned" THEN Some(gw[p].result) ELSE None]
    /\ pc' = [pc EXCEPT ![p] = "replace"]
    /\ UNCHANGED <<store, configStore, req, cfg, snapshot, gw, response, res, turns, systemPrompt>>

\* index.js:132-184: the extraction settles; merge, completion check, replace requested
Extracted(p) ==
    /\ pc[p] = "extract"
    /\ GwSettled(gw[p])
    /\ ops' = [ops EXCEPT ![p] = Append(@, "extract")]
    /\ LET after == AfterExtraction(Val(session[p]), req[p].category, gw[p])
       IN /\ session' = [session EXCEPT ![p] = Some(after)]
          /\ discoveryData' = [discoveryData EXCEPT ![p] =
                ResponseFacts(Val(session[p]), req[p].category, gw[p])]
          /\ categoryComplete' = [categoryComplete EXCEPT ![p] =
                isComplete(cfg[p], after, req[p].category, req[p].message)]
    /\ extractionText' = [extractionText EXCEPT ![p] =
          IF gw[p].phase = "returned" THEN Some(gw[p].result) ELSE None]
    /\ pc' = [pc EXCEPT ![p] = "replace"]
    /\ UNCHANGED <<store, configStore, req, cfg, snapshot, gw, response, res, turns, systemPrompt>>

\* the replace made conditional on the document still being the one read
Replaced_ifUnchanged(p) ==
    /\ pc[p] = "replace"
    /\ ops' = [ops EXCEPT ![p] = Append(@, "replace")]
    /\ IF Has(store, req[p].sessionId) /\ store[req[p].sessionId] = Val(snapshot[p])
       THEN /\ store' = [store EXCEPT ![req[p].sessionId] = Val(session[p])]
            /\ res' = [res EXCEPT ![p] =
                  [status |-> 200,
                   body |-> [response |-> Val(response[p]),
                             discoveryData |-> discoveryData[p],
                             categoryComplete |-> categoryComplete[p]]]]
            /\ pc' = [pc EXCEPT ![p] = "done"]
       ELSE /\ Fail(p, errTypeError)
            /\ UNCHANGED store
    /\ UNCHANGED <<configStore, req, cfg, snapshot, session, gw, response,
                   extractionText, discoveryData, categoryComplete, turns, systemPrompt>>

\* index.js:184-194: the store replaces the document; the response is sent
Replaced(p) ==
    /\ pc[p] = "replace"
    /\ ops' = [ops EXCEPT ![p] = Append(@, "replace")]
    /\ IF Has(store, req[p].sessionId)
       THEN /\ store' = [store EXCEPT ![req[p].sessionId] = Val(session[p])]
            /\ res' = [res EXCEPT ![p] =
                  [status |-> 200,
                   body |-> [response |-> Val(response[p]),
                             discoveryData |-> discoveryData[p],
                             categoryComplete |-> categoryComplete[p]]]]
            /\ pc' = [pc EXCEPT ![p] = "done"]
       ELSE /\ Fail(p, errTypeError)
            /\ UNCHANGED store
    /\ UNCHANGED <<configStore, req, cfg, snapshot, session, gw, response,
                   extractionText, discoveryData, categoryComplete, turns, systemPrompt>>

\* sequential use: one handler invocation at a time
Next ==
    \E p \in {"t1"} :
        \/ TurnStart(p)
        \/ ConfigLoaded(p)
        \/ SessionRead(p)
        \/ GwFirstCall(p)
        \/ GwFallbackCall(p)
        \/ Replied(p)
        \/ Extracted(p)
        \/ Replaced(p)

Spec == Init /\ [][Next]_vars

\* overlapping use: the hosting layer dispatches each request to its own
\* invocation; every invocation here serves one request
FirstTurn(p) == pc[p] = "idle" /\ TurnStart(p)

NextConc ==
    \E p \in Procs :
        \/ FirstTurn(p)
        \/ ConfigLoaded(p)
        \/ SessionRead(p)
        \/ GwFirstCall(p)
        \/ GwFallbackCall(p)
        \/ Replied(p)
        \/ Extracted(p)
        \/ Replaced(p)

SpecConc == Init /\ [][NextConc]_vars

\* sessions written before messages and discoveryData were part of every
\* document (index.js:85)
legacyNoMessages ==
    [id |-> "s1", status |-> "active",
     discoveryData |-> [c \in {"security"} |-> factsName]]
legacyNoFacts ==
    [id |-> "s1", status |-> "active",
     messages |-> <<Entry("user", msgOk), Entry("assistant", <<"h","i">>)>>]
LegacySessions == {legacyNoMessages, legacyNoFacts}

InitLegacy ==
    /\ store \in {[s \in {"s1"} |-> d] : d \in LegacySessions}
    /\ configStore \in {[k \in {} |-> 0]}
                        \cup {[k \in {"discovery_config"} |-> d] : d \in ConfigDocs}
    /\ pc = [p \in Procs |-> "idle"]
    /\ Locals

SpecLegacy == InitLegacy /\ [][Next]_vars

(***************************************************************************)
(* The gateway on its own, called with any pair of deployments             *)
(***************************************************************************)
GwLabels == {"main", "extraction"}

\* a caller invokes the gateway (index.js:28)
GwCall(p) ==
    /\ pc[p] = "gateway"
    /\ gw[p].phase = "none"
    /\ \E primaryDeployment \in Deployments, fallbackDeployment \in Deployments,
          label \in GwLabels :
          gw' = [gw EXCEPT ![p] = GwInvoke(primaryDeployment, fallbackDeployment, label)]
    /\ UNCHANGED <<store, configStore, pc, req, cfg, snapshot, session, response,
                   extractionText, discoveryData, categoryComplete, res, ops, turns, systemPrompt>>

\* the caller takes the result or the error
GwReturn(p) ==
    /\ pc[p] = "gateway"
    /\ GwSettled(gw[p])
    /\ gw' = [gw EXCEPT ![p] = NoCall]
    /\ UNCHANGED <<store, configStore, pc, req, cfg, snapshot, session, response,
                   extractionText, discoveryData, categoryComplete, res, ops, turns, systemPrompt>>

InitGw ==
    /\ Stores
    /\ pc = [p \in Procs |-> "gateway"]
    /\ Locals

NextGw ==
    \E p \in Procs :
        \/ GwCall(p)
        \/ GwFirstCall(p)
        \/ GwFallbackCall(p)
        \/ GwReturn(p)

SpecGw == InitGw /\ [][NextGw]_vars

(***************************************************************************)
(* The other handlers that read and replace the session document.  Their   *)
(* requests carry the handler's name in op; a chat request has none.       *)
(***************************************************************************)
OpOf(p) == IF Has(req[p], "op") THEN req[p].op ELSE "chat-process"

\* a session id as a request may give it: "" is a missing one
RequestSessionIds == {"", "s1", "s2"}

\* context.res = { status, body } and return
Respond(p, status, body) ==
    /\ res' = [res EXCEPT ![p] = [status |-> status, body |-> body]]
    /\ pc' = [pc EXCEPT ![p] = "done"]

\* a request arrives at a handler: it is answered at once with `status` when
\* the handler's validation rejects it, and the handler's first await is
\* issued otherwise
Arrive(p, request, label, rejected, status, body) ==
    /\ pc[p] \in {"idle", "done"}
    /\ req' = [req EXCEPT ![p] = request]
    /\ cfg' = [cfg EXCEPT ![p] = None]
    /\ snapshot' = [snapshot EXCEPT ![p] = None]
    /\ session' = [session EXCEPT ![p] = None]
    /\ gw' = [gw EXCEPT ![p] = NoCall]
    /\ response' = [response EXCEPT ![p] = None]
    /\ extractionText' = [extractionText EXCEPT ![p] = None]
    /\ discoveryData' = [discoveryData EXCEPT ![p] = None]
    /\ categoryComplete' = [categoryComplete EXCEPT ![p] = FALSE]
    /\ ops' = [ops EXCEPT ![p] = <<>>]
    /\ systemPrompt' = [systemPrompt EXCEPT ![p] = ""]
    /\ IF rejected
       THEN Respond(p, status, body)
       ELSE /\ res' = [res EXCEPT ![p] = NoResponse]
            /\ pc' = [pc EXCEPT ![p] = label]

\* if (!session.discoveryData) session.discoveryData = {}
withDiscoveryData(doc) ==
    IF Has(doc, "discoveryData") THEN doc ELSE Put(doc, "discoveryData", EmptyObj)

\* the replace made conditional on the document still being the one read
ReplaceAndAnswer_ifUnchanged(p, body) ==
    /\ ops' = [ops EXCEPT ![p] = Append(@, "replace")]
    /\ IF Has(store, req[p].sessionId) /\ store[req[p].sessionId] = Val(snapshot[p])
       THEN /\ store' = [store EXCEPT ![req[p].sessionId] = Val(session[p])]
            /\ Respond(p, 200, body)
       ELSE /\ Respond(p, 412, [error |-> "precondition failed"])
            /\ UNCHANGED store
    /\ UNCHANGED <<configStore, req, cfg, snapshot, session, gw, response,
                   extractionText, discoveryData, categoryComplete, turns, systemPrompt>>

\* container.item(id, id).replace(session) of p's document, then the 200
ReplaceAndAnswer(p, body) ==
    /\ ops' = [ops EXCEPT ![p] = Append(@, "replace")]
    /\ IF Has(store, req[p].sessionId)
       THEN /\ store' = [store EXCEPT ![req[p].sessionId] = Val(session[p])]
            /\ Respond(p, 200, body)
       ELSE /\ Respond(p, 500, [error |-> "replace failed"])
            /\ UNCHANGED store
    /\ UNCHANGED <<configStore, req, cfg, snapshot, session, gw, response,
                   extractionText, discoveryData, categoryComplete, turns, systemPrompt>>

(***************************************************************************)
(* discovery-update (api/discovery-update/index.js)                        *)
(***************************************************************************)
\* the data of a request: none, a string, or an object
DuData == {[kind |-> "missing"], [kind |-> "string"],
           JsonOf(EmptyObj), JsonOf(factsName), JsonOf(factsServers)}
DuCategories == {"", "infrastructure", "security"}
DuRequests ==
    {[op |-> "discovery-update", sessionId |-> sid, category |-> c, data |-> d] :
        sid \in RequestSessionIds, c \in DuCategories, d \in DuData}

\* discovery-update/index.js:19
duInvalid(r) == r.sessionId = "" \/ r.category = "" \/ r.data.kind # "object"

\* the category merged with the data, as the chat turn does with its facts
duApply_merges(doc, category, data) ==
    LET d == withDiscoveryData(doc)
    IN [d EXCEPT !.discoveryData =
            Put(@, category, Merge(GetOr(@, category, EmptyObj), data))]

\* discovery-update/index.js:42-46
duApply(doc, category, data) ==
    LET d == withDiscoveryData(doc)
    IN [d EXCEPT !.discoveryData = Put(@, category, data)]

\* discovery-update/index.js:17-32
DiscoveryUpdateStart(p) ==
    /\ \E r \in DuRequests :
          Arrive(p, r, "du.read", duInvalid(r), 400,
                 [error |-> "sessionId, category, and data (object) are required"])
    /\ UNCHANGED <<store, configStore, turns>>

\* discovery-update/index.js:32-48
DiscoveryUpdateRead(p) ==
    /\ pc[p] = "du.read"
    /\ ops' = [ops EXCEPT ![p] = Append(@, "read")]
    /\ IF Has(store, req[p].sessionId)
       THEN /\ snapshot' = [snapshot EXCEPT ![p] = Some(store[req[p].sessionId])]
            /\ session' = [session EXCEPT ![p] =
                  Some(duApply(store[req[p].sessionId], req[p].category,
                               req[p].data.value))]
            /\ pc' = [pc EXCEPT ![p] = "du.replace"]
            /\ UNCHANGED res
       ELSE /\ Respond(p, 404, [error |-> "Session not found"])
            /\ UNCHANGED <<snapshot, session>>
    /\ UNCHANGED <<store, configStore, req, cfg, gw, response, extractionText,
                   discoveryData, categoryComplete, turns, systemPrompt>>

\* discovery-update/index.js:48-54
DiscoveryUpdateReplaced(p) ==
    /\ pc[p] = "du.replace"
    /\ ReplaceAndAnswer(p, [discoveryData |->
                               Val(session[p]).discoveryData[req[p].category]])

(***************************************************************************)
(* file-ingest (unnamed/part_000)                                          *)
(***************************************************************************)
FiRequests ==
    {[op |-> "file-ingest", sessionId |-> sid, content |-> c] :
        sid \in RequestSessionIds, c \in {"", "hosts.csv"}}

\* part_000:34
fiInvalid(r) == r.sessionId = "" \/ r.content = ""

\* what the model may answer: text that is not JSON, or an object of
\* categories
ingestServers == [c \in {"infrastructure"} |-> factsServers]
ingestTwo ==
    [c \in {"infrastructure", "security"} |->
        IF c = "infrastructure" THEN factsUsers ELSE factsName]
IngestOutputs == {notJson, JsonOf(EmptyObj), JsonOf(ingestServers), JsonOf(ingestTwo)}

\* the categories of the output put in place of the stored ones
MergeCategories_replaces(found, extracted) ==
    [c \in (DOMAIN found) \cup (DOMAIN extracted) |->
        IF c \in DOMAIN extracted THEN extracted[c] ELSE found[c]]

\* part_000:100-108
MergeCategories(found, extracted) ==
    [c \in (DOMAIN found) \cup (DOMAIN extracted) |->
        IF c \in DOMAIN extracted
        THEN Merge(GetOr(found, c, EmptyObj), extracted[c])
        ELSE found[c]]

\* part_000:33-47
FileIngestStart(p) ==
    /\ \E r \in FiRequests :
          Arrive(p, r, "fi.read", fiInvalid(r), 400,
                 [error |-> "sessionId and content are required"])
    /\ UNCHANGED <<store, configStore, turns>>

\* part_000:47-75: the session is read, then the configuration, and the
\* completion is requested
FileIngestRead(p) ==
    /\ pc[p] = "fi.read"
    /\ ops' = [ops EXCEPT ![p] = Append(@, "read")]
    /\ IF Has(store, req[p].sessionId)
       THEN /\ snapshot' = [snapshot EXCEPT ![p] = Some(store[req[p].sessionId])]
            /\ session' = [session EXCEPT ![p] = Some(store[req[p].sessionId])]
            /\ cfg' = [cfg EXCEPT ![p] = loadConfig(configStore)]
            /\ pc' = [pc EXCEPT ![p] = "fi.complete"]
            /\ UNCHANGED res
       ELSE /\ Respond(p, 404, [error |-> "Session not found"])
            /\ UNCHANGED <<snapshot, session, cfg>>
    /\ UNCHANGED <<store, configStore, req, gw, response, extractionText,
                   discoveryData, categoryComplete, turns, systemPrompt>>

\* part_000:75-110: the completion settles; its text is parsed and merged
FileIngestCompleted(p) ==
    /\ pc[p] = "fi.complete"
    /\ ops' = [ops EXCEPT ![p] = Append(@, "complete")]
    /\ \/ \E message \in ServiceErrors :
             /\ Respond(p, 500, [error |-> "Failed to ingest file", details |-> message])
             /\ UNCHANGED <<session, extractionText>>
       \/ \E text \in IngestOutputs :
             /\ extractionText' = [extractionText EXCEPT ![p] = Some(text)]
             /\ IF text.kind = "invalid"
                THEN /\ Respond(p, 500, [error |-> "Failed to parse AI output from file"])
                     /\ UNCHANGED session
                ELSE /\ session' = [session EXCEPT ![p] =
                           Some([withDiscoveryData(Val(@)) EXCEPT !.discoveryData =
                                    MergeCategories(@, text.value)])]
                     /\ pc' = [pc EXCEPT ![p] = "fi.replace"]
                     /\ UNCHANGED res
    /\ UNCHANGED <<store, configStore, req, cfg, snapshot, gw, response,
                   discoveryData, categoryComplete, turns, systemPrompt>>

\* part_000:110-120
FileIngestReplaced(p) ==
    /\ pc[p] = "fi.replace"
    /\ ReplaceAndAnswer(p, [sessionId |-> req[p].sessionId,
                            discoveryData |-> Val(session[p]).discoveryData,
                            updatedCategories |-> DOMAIN Val(extractionText[p]).value])

\* discovery-update and file-ingest called one after the other
NextData ==
    \E p \in {"t1"} :
        \/ DiscoveryUpdateStart(p)
        \/ DiscoveryUpdateRead(p)
        \/ DiscoveryUpdateReplaced(p)
        \/ FileIngestStart(p)
        \/ FileIngestRead(p)
        \/ FileIngestCompleted(p)
        \/ FileIngestReplaced(p)

SpecData == Init /\ [][NextData]_vars

(***************************************************************************)
(* Plan history: plan-history-save, -delete, -load and -list               *)
(***************************************************************************)
\* number of history entries that may be saved in one behaviour
MaxSaves == 3

\* uuidv4() gives an id no earlier call gave: the number of the save.  A
\* request names an entry by such an id; 0 is a missing planId,
\* earlierPlanId the id of an entry saved before the behaviour starts and
\* unknownPlanId one that no save gave
earlierPlanId == 98
unknownPlanId == 99
PlanIds == (0..MaxSaves) \cup {earlierPlanId, unknownPlanId}

\* Array.isArray(session.planHistory) ? session.planHistory : []
historyOf(doc) == IF Has(doc, "planHistory") THEN doc.planHistory ELSE <<>>

\* how the backup of plan-history-save/index.js:60-79 may end: skipped for
\* want of the SDK or the connection string, refused before the blob is
\* named (line 63-64 throws), failed in the upload of line 71, or uploaded
BlobOutcomes == {"skipped", "refused", "uploadFailed", "uploaded"}

\* plan-history-save/index.js:59,68: blobName as the try block leaves it
blobNameAfter(outcome, sessionId, n) ==
    IF outcome \in {"uploadFailed", "uploaded"}
    THEN Some([sessionId |-> sessionId, id |-> n])
    ELSE None

\* plan-history-save/index.js:82-87; createdAt is the time of the save
historyEntry(n, name, blobName) ==
    [id |-> n, name |-> OrStr(name, "Plan"), createdAt |-> n, blobName |-> blobName]

\* the new entry put behind the existing ones
addEntry_atEnd(existingHistory, entry) == Append(existingHistory, entry)

\* plan-history-save/index.js:90: [historyEntry, ...existingHistory]
addEntry(existingHistory, entry) == <<entry>> \o existingHistory

\* history.findIndex(h => h.id === planId), counted from 1; 0 when there is none
findIndex(history, planId) ==
    LET hits == {i \in 1..Len(history) : history[i].id = planId}
    IN IF hits = {} THEN 0 ELSE CHOOSE i \in hits : \A j \in hits : i <= j

\* history.splice(entryIndex, 1)
splice(history, entryIndex) ==
    SubSeq(history, 1, entryIndex - 1) \o SubSeq(history, entryIndex + 1, Len(history))

PhsRequests ==
    {[op |-> "plan-history-save", sessionId |-> sid, name |-> n] :
        sid \in RequestSessionIds, n \in {"", "v1"}}

\* plan-history-save/index.js:24-38
PlanHistorySaveStart(p) ==
    /\ turns < MaxSaves
    /\ \E r \in PhsRequests :
          Arrive(p, r, "phs.read", r.sessionId = "", 400,
                 [error |-> "sessionId is required"])
    /\ UNCHANGED <<store, configStore, turns>>

\* plan-history-save/index.js:38-71
PlanHistorySaveRead(p) ==
    /\ pc[p] = "phs.read"
    /\ ops' = [ops EXCEPT ![p] = Append(@, "read")]
    /\ IF Has(store, req[p].sessionId)
       THEN /\ snapshot' = [snapshot EXCEPT ![p] = Some(store[req[p].sessionId])]
            /\ session' = [session EXCEPT ![p] = Some(store[req[p].sessionId])]
            /\ pc' = [pc EXCEPT ![p] = "phs.blob"]
            /\ UNCHANGED res
       ELSE /\ Respond(p, 404, [error |-> "Session not found"])
            /\ UNCHANGED <<snapshot, session>>
    /\ UNCHANGED <<store, configStore, req, cfg, gw, response, extractionText,
                   discoveryData, categoryComplete, turns, systemPrompt>>

\* plan-history-save/index.js:60-92: the backup ends one way or another,
\* the entry is put in front and the replace is issued
PlanHistorySaveBackedUp(p) ==
    /\ pc[p] = "phs.blob"
    /\ ops' = [ops EXCEPT ![p] = Append(@, "backup")]
    /\ turns' = turns + 1
    /\ \E outcome \in BlobOutcomes :
          LET blobName == blobNameAfter(outcome, req[p].sessionId, turns + 1)
              entry == historyEntry(turns + 1, req[p].name, blobName)
          IN /\ response' = [response EXCEPT ![p] = Some(outcome)]
             /\ session' = [session EXCEPT ![p] =
                   Some(Put(Val(@), "planHistory", addEntry(historyOf(Val(@)), entry)))]
    /\ pc' = [pc EXCEPT ![p] = "phs.replace"]
    /\ UNCHANGED <<store, configStore, req, cfg, snapshot, gw, extractionText,
                   discoveryData, categoryComplete, res, systemPrompt>>

\* plan-history-save/index.js:92-98
PlanHistorySaveReplaced(p) ==
    /\ pc[p] = "phs.replace"
    /\ ReplaceAndAnswer(p, [success |-> TRUE, history |-> Val(session[p]).planHistory])

PlanRequests(op) ==
    {[op |-> op, sessionId |-> sid, planId |-> id] :
        sid \in RequestSessionIds, id \in PlanIds}

\* plan-history-delete/index.js:23-37
PlanHistoryDeleteStart(p) ==
    /\ \E r \in PlanRequests("plan-history-delete") :
          Arrive(p, r, "phd.read", r.sessionId = "" \/ r.planId = 0, 400,
                 [error |-> "sessionId and planId are required"])
    /\ UNCHANGED <<store, configStore, turns>>

\* plan-history-delete/index.js:37-75; the blob is deleted at best effort on
\* the way, which the session does not see
PlanHistoryDeleteRead(p) ==
    /\ pc[p] = "phd.read"
    /\ ops' = [ops EXCEPT ![p] = Append(@, "read")]
    /\ IF Has(store, req[p].sessionId)
       THEN LET doc == store[req[p].sessionId]
                history == historyOf(doc)
                entryIndex == findIndex(history, req[p].planId)
            IN /\ snapshot' = [snapshot EXCEPT ![p] = Some(doc)]
               /\ IF entryIndex = 0
                  THEN /\ Respond(p, 404, [error |-> "Plan history entry not found"])
                       /\ UNCHANGED session
                  ELSE /\ session' = [session EXCEPT ![p] =
                             Some(Put(doc, "planHistory", splice(history, entryIndex)))]
                       /\ pc' = [pc EXCEPT ![p] = "phd.replace"]
                       /\ UNCHANGED res
       ELSE /\ Respond(p, 404, [error |-> "Session not found"])
            /\ UNCHANGED <<snapshot, session>>
    /\ UNCHANGED <<store, configStore, req, cfg, gw, response, extractionText,
                   discoveryData, categoryComplete, turns, systemPrompt>>

\* plan-history-delete/index.js:75-81
PlanHistoryDeleteReplaced(p) ==
    /\ pc[p] = "phd.replace"
    /\ ReplaceAndAnswer(p, [success |-> TRUE, history |-> Val(session[p]).planHistory])

\* plan-history-load/index.js:23-37
PlanHistoryLoadStart(p) ==
    /\ \E r \in PlanRequests("plan-history-load") :
          Arrive(p, r, "phl.read", r.sessionId = "" \/ r.planId = 0, 400,
                 [error |-> "sessionId and planId are required"])
    /\ UNCHANGED <<store, configStore, turns>>

\* plan-history-load/index.js:37-71; the storage may or may not be configured
PlanHistoryLoadRead(p) ==
    /\ pc[p] = "phl.read"
    /\ ops' = [ops EXCEPT ![p] = Append(@, "read")]
    /\ IF Has(store, req[p].sessionId)
       THEN LET doc == store[req[p].sessionId]
                history == historyOf(doc)
                entryIndex == findIndex(history, req[p].planId)
            IN /\ snapshot' = [snapshot EXCEPT ![p] = Some(doc)]
               /\ IF entryIndex = 0 \/ history[entryIndex].blobName = None
                  THEN /\ Respond(p, 404, [error |-> "Plan history entry not found"])
                       /\ UNCHANGED response
                  ELSE \/ /\ Respond(p, 500,
                                     [error |-> "Storage configuration missing for plan load"])
                          /\ UNCHANGED response
                       \/ /\ response' = [response EXCEPT ![p] = Some(history[entryIndex])]
                          /\ pc' = [pc EXCEPT ![p] = "phl.download"]
                          /\ UNCHANGED res
       ELSE /\ Respond(p, 404, [error |-> "Session not found"])
            /\ UNCHANGED <<snapshot, response>>
    /\ UNCHANGED <<store, configStore, req, cfg, session, gw, extractionText,
                   discoveryData, categoryComplete, turns, systemPrompt>>

\* plan-history-load/index.js:71-92: the download ends
PlanHistoryLoadDownloaded(p) ==
    /\ pc[p] = "phl.download"
    /\ ops' = [ops EXCEPT ![p] = Append(@, "download")]
    /\ \/ Respond(p, 200, [name |-> Val(response[p]).name,
                           createdAt |-> Val(response[p]).createdAt])
       \/ Respond(p, 500, [error |-> "Failed to load plan history"])
    /\ UNCHANGED <<store, configStore, req, cfg, snapshot, session, gw, response,
                   extractionText, discoveryData, categoryComplete, turns, systemPrompt>>

PhListRequests ==
    {[op |-> "plan-history-list", sessionId |-> sid] : sid \in RequestSessionIds}

\* plan-history-list/index.js:17-31
PlanHistoryListStart(p) ==
    /\ \E r \in PhListRequests :
          Arrive(p, r, "phlist.read", r.sessionId = "", 400,
                 [error |-> "sessionId is required"])
    /\ UNCHANGED <<store, configStore, turns>>

\* plan-history-list/index.js:31-47
PlanHistoryListRead(p) ==
    /\ pc[p] = "phlist.read"
    /\ ops' = [ops EXCEPT ![p] = Append(@, "read")]
    /\ IF Has(store, req[p].sessionId)
       THEN /\ snapshot' = [snapshot EXCEPT ![p] = Some(store[req[p].sessionId])]
            /\ Respond(p, 200, [history |-> historyOf(store[req[p].sessionId])])
       ELSE /\ Respond(p, 404, [error |-> "Session not found"])
            /\ UNCHANGED snapshot
    /\ UNCHANGED <<store, configStore, req, cfg, session, gw, response, extractionText,
                   discoveryData, categoryComplete, turns, systemPrompt>>

\* the plan history handlers called one after the other
NextHistory ==
    \E p \in {"t1"} :
        \/ PlanHistorySaveStart(p)
        \/ PlanHistorySaveRead(p)
        \/ PlanHistorySaveBackedUp(p)
        \/ PlanHistorySaveReplaced(p)
        \/ PlanHistoryDeleteStart(p)
        \/ PlanHistoryDeleteRead(p)
        \/ PlanHistoryDeleteReplaced(p)
        \/ PlanHistoryLoadStart(p)
        \/ PlanHistoryLoadRead(p)
        \/ PlanHistoryLoadDownloaded(p)
        \/ PlanHistoryListStart(p)
        \/ PlanHistoryListRead(p)

SpecHistory == Init /\ [][NextHistory]_vars

(***************************************************************************)
(* admin-config-set (api/admin-config-set/index.js)                        *)
(***************************************************************************)
\* a submitted config is a JSON value together with what the handler's tests
\* see of its categories field: absent, an array, or another object
cfgNoCategories == [globalSettings |-> [aiModel |-> "gpt-5"]]
\* { categories: {} }: categories is there, and is not an array
cfgCategoriesObject == [categories |-> EmptyObj]
AcsConfigs ==
    {[categories |-> "array", value |-> cfgCriteria],
     [categories |-> "array", value |-> cfgDefaults],
     [categories |-> "absent", value |-> cfgNoCategories],
     [categories |-> "object", value |-> cfgCategoriesObject]}

\* req.body: none at all, an object without config, or an object with one
AcsBodies == {[kind |-> "none"], [kind |-> "object"]}
                \cup {[kind |-> "object", config |-> c] : c \in AcsConfigs}
AcsRequests == {[op |-> "admin-config-set", body |-> b] : b \in AcsBodies}

\* admin-config-set/index.js:13: const { config } = req.body throws on a
\* request without body, outside the try: the host answers 500
acsThrows(r) == r.body.kind = "none"

\* admin-config-set/index.js:15,25
acsInvalid(r) ==
    \/ ~Has(r.body, "config")
    \/ r.body.config.categories # "array"

\* admin-config-set/index.js:35-39
configDoc(config) == [id |-> "discovery_config", data |-> config.value]

\* admin-config-set/index.js:13-42
AdminConfigSetStart(p) ==
    /\ \E r \in AcsRequests :
          Arrive(p, r, "acs.upsert", acsThrows(r) \/ acsInvalid(r),
                 IF acsThrows(r) THEN 500 ELSE 400,
                 IF acsThrows(r) THEN [error |-> "TypeError"]
                 ELSE IF ~Has(r.body, "config")
                      THEN [error |-> "Configuration is required"]
                      ELSE [error |-> "Invalid configuration: categories array is required"])
    /\ UNCHANGED <<store, configStore, turns>>

\* admin-config-set/index.js:42-48: container.items.upsert(configDoc)
AdminConfigSetUpserted(p) ==
    /\ pc[p] = "acs.upsert"
    /\ ops' = [ops EXCEPT ![p] = Append(@, "upsert")]
    /\ configStore' = Put(configStore, "discovery_config", configDoc(req[p].body.config))
    /\ Respond(p, 200, [success |-> TRUE])
    /\ UNCHANGED <<store, req, cfg, snapshot, session, gw, response, extractionText,
                   discoveryData, categoryComplete, turns, systemPrompt>>

\* an administrator saves configurations while a chat turn is served
NextAdmin ==
    \/ \E p \in {"t1"} :
          \/ FirstTurn(p)
          \/ ConfigLoaded(p)
          \/ SessionRead(p)
          \/ GwFirstCall(p)
          \/ GwFallbackCall(p)
          \/ Replied(p)
          \/ Extracted(p)
          \/ Replaced(p)
    \/ \E p \in {"t2"} :
          \/ AdminConfigSetStart(p)
          \/ AdminConfigSetUpserted(p)

SpecAdmin == Init /\ [][NextAdmin]_vars

(***************************************************************************)
(* plan-generate (api/plan-generate/index.js)                              *)
(***************************************************************************)
PgRequests == {[op |-> "plan-generate", sessionId |-> sid] : sid \in SessionIds}

\* plan-generate/index.js:64-73
fallbackPlan == [phases |-> <<"Assessment", "Migration", "Integration">>]

\* what the model may answer: text that is not JSON, a plan, or an object
\* without phases
PlanOutputs == {notJson, JsonOf([phases |-> <<"Planning">>]), JsonOf(EmptyObj)}

\* plan-generate/index.js:59-74
parsedPlan(text) == IF text.kind = "invalid" THEN fallbackPlan ELSE text.value

\* plan-generate/index.js:21-24
PlanGenerateStart(p) ==
    /\ \E r \in PgRequests : Arrive(p, r, "pg.read", FALSE, 0, EmptyObj)
    /\ UNCHANGED <<store, configStore, turns>>

\* plan-generate/index.js:24-51: the read settles, with or without a
\* session, and the completion is requested
PlanGenerateRead(p) ==
    /\ pc[p] = "pg.read"
    /\ ops' = [ops EXCEPT ![p] = Append(@, "read")]
    /\ LET resource == IF Has(store, req[p].sessionId)
                       THEN Some(store[req[p].sessionId]) ELSE None
       IN /\ snapshot' = [snapshot EXCEPT ![p] = resource]
          /\ session' = [session EXCEPT ![p] = resource]
    /\ pc' = [pc EXCEPT ![p] = "pg.complete"]
    /\ UNCHANGED <<store, configStore, req, cfg, gw, response, extractionText,
                   discoveryData, categoryComplete, res, turns, systemPrompt>>

\* plan-generate/index.js:51-129: the completion settles; the plan is parsed,
\* walked and assigned to the session
PlanGenerateCompleted(p) ==
    /\ pc[p] = "pg.complete"
    /\ ops' = [ops EXCEPT ![p] = Append(@, "complete")]
    /\ \/ /\ Respond(p, 500, [error |-> "Failed to generate execution plan"])
          /\ UNCHANGED <<session, extractionText>>
       \/ \E text \in PlanOutputs :
             /\ extractionText' = [extractionText EXCEPT ![p] = Some(text)]
             /\ IF ~Has(parsedPlan(text), "phases") \/ session[p] = None
                THEN \* plan.phases.forEach or session.executionPlan throws
                     /\ Respond(p, 500, [error |-> "Failed to generate execution plan"])
                     /\ UNCHANGED session
                ELSE /\ session' = [session EXCEPT ![p] =
                           Some(Put(Val(@), "executionPlan", parsedPlan(text)))]
                     /\ pc' = [pc EXCEPT ![p] = "pg.replace"]
                     /\ UNCHANGED res
    /\ UNCHANGED <<store, configStore, req, cfg, snapshot, gw, response,
                   discoveryData, categoryComplete, turns, systemPrompt>>

\* plan-generate/index.js:129-138
PlanGenerateReplaced(p) ==
    /\ pc[p] = "pg.replace"
    /\ ReplaceAndAnswer(p, [planNodes |-> Val(session[p]).executionPlan.phases])

(***************************************************************************)
(* Two requests served at once, each by its own invocation, on a session   *)
(* that has been worked on                                                  *)
(***************************************************************************)
earlierEntry == [id |-> earlierPlanId, name |-> "v0", createdAt |-> 0, blobName |-> None]

\* a session after a chat turn, an ingest and a save
workedSession ==
    [id |-> "s1", status |-> "active",
     discoveryData |-> [c \in {"security"} |-> factsName],
     messages |-> <<Entry("user", msgOk), Entry("assistant", <<"h","i">>)>>,
     planHistory |-> <<earlierEntry>>]

InitOverlap ==
    /\ store = [s \in {"s1"} |-> workedSession]
    /\ configStore = [k \in {"discovery_config"} |->
                         [id |-> "discovery_config", data |-> cfgCriteria]]
    /\ pc = [p \in Procs |-> "idle"]
    /\ Locals

FirstDiscoveryUpdate(p) == pc[p] = "idle" /\ DiscoveryUpdateStart(p)
FirstFileIngest(p) == pc[p] = "idle" /\ FileIngestStart(p)
FirstPlanGenerate(p) == pc[p] = "idle" /\ PlanGenerateStart(p)
FirstPlanHistorySave(p) == pc[p] = "idle" /\ PlanHistorySaveStart(p)
FirstPlanHistoryDelete(p) == pc[p] = "idle" /\ PlanHistoryDeleteStart(p)

NextOverlap ==
    \/ \E p \in {"t1"} :
          \/ FirstTurn(p)
          \/ ConfigLoaded(p)
          \/ SessionRead(p)
          \/ GwFirstCall(p)
          \/ GwFallbackCall(p)
          \/ Replied(p)
          \/ Extracted(p)
          \/ Replaced(p)
    \/ \E p \in Procs :
          \/ FirstDiscoveryUpdate(p)
          \/ DiscoveryUpdateRead(p)
          \/ DiscoveryUpdateReplaced(p)
          \/ FirstFileIngest(p)
          \/ FileIngestRead(p)
          \/ FileIngestCompleted(p)
          \/ FileIngestReplaced(p)
          \/ FirstPlanGenerate(p)
          \/ PlanGenerateRead(p)
          \/ PlanGenerateCompleted(p)
          \/ PlanGenerateReplaced(p)
          \/ FirstPlanHistorySave(p)
          \/ PlanHistorySaveRead(p)
          \/ PlanHistorySaveBackedUp(p)
          \/ PlanHistorySaveReplaced(p)
          \/ FirstPlanHistoryDelete(p)
          \/ PlanHistoryDeleteRead(p)
          \/ PlanHistoryDeleteReplaced(p)

SpecOverlap == InitOverlap /\ [][NextOverlap]_vars

TypeOK ==
    /\ \A p \in Procs : pc[p] \in {"idle", "loadConfig", "read", "reply",
                                    "extract", "replace", "done", "gateway",
                                    "du.read", "du.replace",
                                    "fi.read", "fi.complete", "fi.replace",
                                    "phs.read", "phs.blob", "phs.replace",
                                    "phd.read", "phd.replace",
                                    "phl.read", "phl.download", "phlist.read",
                                    "acs.upsert",
                                    "pg.read", "pg.complete", "pg.replace"}
    /\ turns \in Nat

(***************************************************************************)
(* Properties                                                              *)
(***************************************************************************)
\* the step in which the store answers p's replace
Persists(p) == pc[p] = "replace" /\ pc'[p] = "done" /\ res'[p].status = 200

\* the facts of a turn's extraction, when it returned a non-empty mapping
NewFacts(p) ==
    IF /\ IsSome(extractionText[p])
       /\ Val(extractionText[p]).kind = "object"
       /\ DOMAIN Val(extractionText[p]).value # {}
    THEN Some(Val(extractionText[p]).value)
    ELSE None

\* M is the shallow union of E and F, F winning
IsShallowUnion(M, E, F) ==
    /\ DOMAIN M = (DOMAIN E) \cup (DOMAIN F)
    /\ \A k \in DOMAIN F : M[k] = F[k]
    /\ \A k \in (DOMAIN E) \ (DOMAIN F) : M[k] = E[k]

\* C1: when a turn's extraction returned a non-empty mapping F for category
\* c, the replace stores at discoveryData[c] the shallow union of the mapping
\* stored before (empty if absent) and F: F's keys at F's values, the other
\* stored keys unchanged, no other key.
C1_MergeIsShallowUnion ==
    [][\A p \in Procs :
          (Persists(p) /\ IsSome(NewFacts(p))) =>
             LET sid == req[p].sessionId
                 c == req[p].category
                 E == IF Has(store[sid], "discoveryData")
                      THEN GetOr(store[sid].discoveryData, c, EmptyObj)
                      ELSE EmptyObj
             IN /\ Has(store'[sid].discoveryData, c)
                /\ IsShallowUnion(store'[sid].discoveryData[c], E, Val(NewFacts(p)))]_vars

\* a turn overwrote a stored fact with a different value and kept another one
C1_Witness ==
    \E p \in Procs :
        /\ pc[p] = "done" /\ res[p].status = 200
        /\ NewFacts(p) = Some(factsServers)
        /\ LET E == Val(snapshot[p]).discoveryData
               c == req[p].category
           IN /\ Has(E, c)
              /\ E[c] = factsUsers
              /\ store[req[p].sessionId].discoveryData[c]["total_users"] = 1
              /\ store[req[p].sessionId].discoveryData[c]["company_name"] = 0

\* the messages that carry a completion signal: "Done", "ok next"
SignalMessages == {msgDone, msgNext}

\* the completion criteria configured for the category of p's request
CriteriaOf(p) ==
    IF Has(configStore, "discovery_config")
    THEN LET cats == configStore["discovery_config"].data.categories
             hit == {i \in 1..Len(cats) :
                        /\ cats[i].id = req[p].category
                        /\ Has(cats[i], "completionCriteria")}
         IN IF hit = {} THEN None
            ELSE Some(cats[CHOOSE i \in hit : TRUE].completionCriteria)
    ELSE None

\* the facts stored for the category of p's request (empty if none)
StoredFacts(p) ==
    GetOr(store[req[p].sessionId].discoveryData, req[p].category, EmptyObj)

Succeeded(p) == pc[p] = "done" /\ res[p].status = 200

RequiredPresent(criteria, facts) ==
    \/ ~Has(criteria, "requiredFields")
    \/ \A i \in 1..Len(criteria.requiredFields) :
          /\ Has(facts, criteria.requiredFields[i])
          /\ facts[criteria.requiredFields[i]] # 0

\* C2: with completionCriteria configured, categoryComplete is true exactly
\* when the message carries a signal, the post-merge fact count is at least
\* minFacts (3 when minFacts is not given) and every required field is
\* present and truthy.
C2_CompleteIffAllThree ==
    \A p \in Procs :
        (Succeeded(p) /\ IsSome(CriteriaOf(p))) =>
            LET criteria == Val(CriteriaOf(p))
                minimum == IF Has(criteria, "minFacts") THEN criteria.minFacts ELSE 3
            IN res[p].body.categoryComplete =
                  (/\ req[p].message \in SignalMessages
                   /\ Cardinality(DOMAIN StoredFacts(p)) >= minimum
                   /\ RequiredPresent(criteria, StoredFacts(p)))

\* C3: a turn whose message carries none of done, complete, finished, next
\* returns categoryComplete = false, whatever the facts and the criteria.
C3_NoSignalNeverComplete ==
    \A p \in Procs :
        (Succeeded(p) /\ req[p].message \notin SignalMessages) =>
            res[p].body.categoryComplete = FALSE

\* a turn without a signal on a category whose facts meet the criteria
C3_Witness ==
    \E p \in Procs :
        /\ Succeeded(p)
        /\ req[p].message = msgFinish
        /\ IsSome(CriteriaOf(p))
        /\ Has(Val(CriteriaOf(p)), "minFacts")
        /\ Cardinality(DOMAIN StoredFacts(p)) >= Val(CriteriaOf(p)).minFacts
        /\ Val(CriteriaOf(p)).minFacts = 2
        /\ RequiredPresent(Val(CriteriaOf(p)), StoredFacts(p))
        /\ res[p].body.categoryComplete = FALSE

\* C10: with minFacts 0 and no required fields a signal alone completes the
\* category, even with zero accumulated facts.
C10_SignalAloneCompletes ==
    \A p \in Procs :
        (/\ Succeeded(p)
         /\ IsSome(CriteriaOf(p))
         /\ Has(Val(CriteriaOf(p)), "minFacts")
         /\ Val(CriteriaOf(p)).minFacts = 0
         /\ ~Has(Val(CriteriaOf(p)), "requiredFields")
         /\ req[p].message \in SignalMessages)
        => res[p].body.categoryComplete = TRUE

\* the first call of p's gateway invocation went to the primary deployment,
\* failed with the missing-deployment error, and another fallback is configured
MissingPrimaryWithFallback(f) ==
    /\ Len(f.answers) >= 1
    /\ f.primary # ""
    /\ f.calls[1] = f.primary
    /\ ~f.answers[1].ok
    /\ f.answers[1].text = errMissing
    /\ f.fallback # ""
    /\ f.fallback # f.primary

\* C4: when the primary call fails with the missing-deployment error and a
\* non-empty fallback different from the primary is configured, the gateway
\* calls the primary and then the fallback, exactly these two, returns what
\* the fallback call gave, and logs one warning naming both deployments.
C4_FallbackOnMissingDeployment ==
    \A p \in Procs :
        MissingPrimaryWithFallback(gw[p]) =>
            /\ gw[p].calls = <<gw[p].primary, gw[p].fallback>>
            /\ Len(gw[p].warns) = 1
            /\ gw[p].warns[1].primary = gw[p].primary
            /\ gw[p].warns[1].fallback = gw[p].fallback
            /\ gw[p].warns[1].label = gw[p].label
            /\ gw[p].phase \in {"call2", "returned", "threw"}
            /\ GwSettled(gw[p]) =>
                  /\ Len(gw[p].answers) = 2
                  /\ gw[p].result = gw[p].answers[2].text
                  /\ (gw[p].phase = "returned") = gw[p].answers[2].ok

\* the gateway returned the fallback's completion after a missing primary
C4_Witness ==
    \E p \in Procs :
        /\ MissingPrimaryWithFallback(gw[p])
        /\ gw[p].phase = "returned"
        /\ gw[p].primary = "gpt-5"
        /\ gw[p].calls = <<"gpt-5", "gpt-4.1-mini">>
        /\ gw[p].label = "main"
        /\ gw[p].result \in Replies

\* C5: at most two calls per invocation; the second only after a
\* missing-deployment failure of the primary with a distinct non-empty
\* fallback; any other first failure propagates after one call; a failure of
\* the fallback call propagates and no third call is made.
C5_SingleRetryOnly ==
    \A p \in Procs :
        LET f == gw[p] IN
        /\ Len(f.calls) <= 2
        /\ Len(f.answers) <= Len(f.calls)
        /\ Len(f.calls) = 2 => MissingPrimaryWithFallback(f)
        /\ (/\ Len(f.answers) >= 1
            /\ ~f.answers[1].ok
            /\ \/ f.answers[1].text # errMissing
               \/ f.fallback = ""
               \/ f.fallback = f.primary)
           => /\ f.phase = "threw"
              /\ f.calls = <<OrStr(f.primary, f.fallback)>>
              /\ Len(f.answers) = 1
              /\ f.result = f.answers[1].text
        /\ (Len(f.answers) = 2 /\ ~f.answers[2].ok)
           => /\ f.phase = "threw"
              /\ f.result = f.answers[2].text
              /\ Len(f.calls) = 2

\* a missing-deployment failure that is not retried because the fallback is
\* the primary itself
C5_Witness ==
    \E p \in Procs :
        /\ gw[p].phase = "threw"
        /\ gw[p].primary = "gpt-5" /\ gw[p].fallback = "gpt-5"
        /\ gw[p].answers = <<Answer(FALSE, errMissing)>>
        /\ gw[p].calls = <<"gpt-5">>

\* p's turn ended before an assistant reply was obtained
FailedEarly(p) == pc[p] = "done" /\ response[p] = None

\* C6: a turn writes the session store at most once, as its last store
\* operation; a turn in which a step up to and including the reply call
\* throws returns status 500 with error and details and leaves the stored
\* sessions as they were: the store changes only in the step that ends a
\* turn successfully.
C6_SingleFinalWrite ==
    /\ [](\A p \in Procs :
            /\ \A i \in 1..Len(ops[p]) : ops[p][i] = "replace" => i = Len(ops[p])
            /\ FailedEarly(p) =>
                  /\ res[p].status = 500
                  /\ DOMAIN res[p].body = {"error", "details"}
                  /\ \A i \in 1..Len(ops[p]) : ops[p][i] # "replace")
    /\ [][store' # store =>
            \E p \in Procs : /\ Persists(p)
                              /\ response[p] # None
                              /\ ops'[p] = Append(ops[p], "replace")]_vars

\* a turn failed at the reply call after an earlier turn had stored messages
C6_Witness ==
    \E p \in Procs :
        /\ FailedEarly(p)
        /\ ops[p] = <<"read", "reply">>
        /\ res[p].body.details = errAuth
        /\ Len(store[req[p].sessionId].messages) = 2
        /\ store[req[p].sessionId] = Val(snapshot[p])

\* C7: when the extraction text is not valid JSON the turn still returns 200
\* with the reply and discoveryData null, the stored discoveryData is what
\* it was and the turn's two messages are appended and stored.
C7_ParseFailureIsNotFatal ==
    \A p \in Procs :
        (pc[p] = "done" /\ extractionText[p] = Some(notJson)) =>
            LET before == Val(snapshot[p])
                stored == store[req[p].sessionId]
            IN /\ res[p].status = 200
               /\ res[p].body.response \in Replies
               /\ res[p].body.discoveryData = None
               /\ stored.discoveryData = before.discoveryData
               /\ stored.messages =
                     before.messages \o <<Entry("user", req[p].message),
                                          Entry("assistant", res[p].body.response)>>

\* a turn with an unparsable extraction on a category that has facts
C7_Witness ==
    \E p \in Procs :
        /\ pc[p] = "done"
        /\ extractionText[p] = Some(notJson)
        /\ res[p].status = 200
        /\ Has(store[req[p].sessionId].discoveryData, req[p].category)
        /\ Len(store[req[p].sessionId].messages) = 4

\* C8: the replace carries no version check: it succeeds and stores the
\* writer's document also when the stored document is no longer the one the
\* writer read, so of two overlapping turns the later replace wins.
C8_ReplaceOverwrites ==
    [][\A p \in Procs :
          (pc[p] = "replace" /\ pc'[p] = "done") =>
              /\ res'[p].status = 200
              /\ store'[req[p].sessionId] = Val(session[p])
              /\ store'[req[p].sessionId].messages =
                    Val(snapshot[p]).messages
                       \o <<Entry("user", req[p].message),
                            Entry("assistant", Val(response[p]))>>]_vars

\* two turns on one session both returned 200 and the stored session holds
\* the two messages and the facts of one of them only
C8_Witness ==
    \E p, q \in Procs :
        /\ p # q
        /\ Succeeded(p) /\ Succeeded(q)
        /\ req[p].sessionId = req[q].sessionId
        /\ req[p].category # req[q].category
        /\ req[p].message # req[q].message
        /\ IsSome(res[p].body.discoveryData)
        /\ IsSome(res[q].body.discoveryData)
        /\ store[req[p].sessionId].messages =
              <<Entry("user", req[q].message), Entry("assistant", Val(response[q]))>>
        /\ ~Has(store[req[p].sessionId].discoveryData, req[p].category)

\* C9: a turn for a session id with no stored session is answered with a
\* not-found (404) response and no session is created or changed.
C9_AbsentSessionIs404 ==
    \A p \in Procs :
        (pc[p] = "done" /\ ~Has(store, req[p].sessionId)) =>
            /\ res[p].status = 404
            /\ \A i \in 1..Len(ops[p]) : ops[p][i] # "replace"

\* C11: when no completion criteria are available for the category (no
\* configuration document, category not listed, or listed without
\* completionCriteria), categoryComplete equals the completion signal,
\* whatever the number of accumulated facts.
C11_KeywordFallback ==
    \A p \in Procs :
        (Succeeded(p) /\ CriteriaOf(p) = None) =>
            res[p].body.categoryComplete = (req[p].message \in SignalMessages)

\* a signal completes a category that the configuration does not list and
\* that has no facts at all
C11_Witness ==
    \E p \in Procs :
        /\ Succeeded(p)
        /\ Has(configStore, "discovery_config")
        /\ req[p].category = "finance"
        /\ req[p].message = msgNext
        /\ StoredFacts(p) = EmptyObj
        /\ res[p].body.categoryComplete = TRUE

\* the facts the turn of p read for the category of its request (empty if none)
FactsRead(p) ==
    IF Has(Val(snapshot[p]), "discoveryData")
    THEN GetOr(Val(snapshot[p]).discoveryData, req[p].category, EmptyObj)
    ELSE EmptyObj

\* the configured minimum of a criteria object: minFacts, 3 when not given
ConfiguredMinimum(criteria) ==
    IF Has(criteria, "minFacts") THEN criteria.minFacts ELSE 3

\* C12: the completion check sees the facts after the turn's own merge: a
\* signal-bearing turn whose extraction raises the category from below the
\* configured minimum to at least the minimum, with the required fields
\* present afterwards, returns categoryComplete = true in that same turn.
C12_CheckAfterMerge ==
    \A p \in Procs :
        (/\ Succeeded(p)
         /\ IsSome(CriteriaOf(p))
         /\ req[p].message \in SignalMessages
         /\ IsSome(NewFacts(p))
         /\ Cardinality(DOMAIN FactsRead(p)) < ConfiguredMinimum(Val(CriteriaOf(p)))
         /\ Cardinality(DOMAIN StoredFacts(p)) >= ConfiguredMinimum(Val(CriteriaOf(p)))
         /\ RequiredPresent(Val(CriteriaOf(p)), StoredFacts(p)))
        => res[p].body.categoryComplete = TRUE

\* one fact stored, minimum 2 with company_name required: the turn that
\* extracts two more facts and says "Done" completes the category
C12_Witness ==
    \E p \in Procs :
        /\ Succeeded(p)
        /\ req[p].category = "infrastructure"
        /\ IsSome(CriteriaOf(p))
        /\ ConfiguredMinimum(Val(CriteriaOf(p))) = 2
        /\ req[p].message = msgDone
        /\ FactsRead(p) = factsName
        /\ NewFacts(p) = Some(factsServers)
        /\ Cardinality(DOMAIN StoredFacts(p)) = 3
        /\ res[p].body.categoryComplete = TRUE

MessagesOf(doc) == IF Has(doc, "messages") THEN doc.messages ELSE <<>>
FactsOf(doc) == IF Has(doc, "discoveryData") THEN doc.discoveryData ELSE EmptyObj

IsPrefix(a, b) == Len(a) <= Len(b) /\ \A i \in 1..Len(a) : a[i] = b[i]

\* C13: a successful turn appends the user message and then the assistant
\* reply to the stored messages, changes at most the fact mapping of the
\* request's category, and leaves every other category and every other
\* field of the document as it was.
C13_FrameOfTurn ==
    [][\A p \in Procs :
          Persists(p) =>
             LET before == store[req[p].sessionId]
                 after == store'[req[p].sessionId]
             IN /\ after.messages =
                      MessagesOf(before)
                         \o <<[role |-> "user", content |-> req[p].message],
                              [role |-> "assistant", content |-> res'[p].body.response]>>
                /\ DOMAIN after = (DOMAIN before) \cup {"messages", "discoveryData"}
                /\ \A f \in (DOMAIN before) \ {"messages", "discoveryData"} :
                      after[f] = before[f]
                /\ DOMAIN after.discoveryData \subseteq
                      (DOMAIN FactsOf(before)) \cup {req[p].category}
                /\ \A c \in DOMAIN FactsOf(before) :
                      c # req[p].category =>
                         /\ Has(after.discoveryData, c)
                         /\ after.discoveryData[c] = FactsOf(before)[c]]_vars

\* the second turn of a session changed one category and kept the other
C13_Witness ==
    \E p \in Procs :
        /\ Succeeded(p)
        /\ req[p].category = "infrastructure"
        /\ Has(FactsOf(Val(snapshot[p])), "security")
        /\ ~Has(FactsOf(Val(snapshot[p])), "infrastructure")
        /\ store[req[p].sessionId].discoveryData["security"] =
              Val(snapshot[p]).discoveryData["security"]
        /\ Has(store[req[p].sessionId].discoveryData, "infrastructure")
        /\ Len(store[req[p].sessionId].messages) = 4
        /\ store[req[p].sessionId].status = "active"

\* C14 as stated: every write leaves the previously stored messages list as
\* a prefix of the stored one.
C14_AppendOnly ==
    [][\A sid \in DOMAIN store :
          IsPrefix(MessagesOf(store[sid]), MessagesOf(store'[sid]))]_vars

\* C14 amended: the messages list changes only in a turn's replace; the
\* replace stores the list the turn read extended by the turn's two
\* messages, so a replace by a turn whose read document is still the stored
\* one keeps the stored list as a prefix.
C14_AppendOnlyWithoutOverlap ==
    [][\A sid \in DOMAIN store :
          MessagesOf(store'[sid]) # MessagesOf(store[sid]) =>
             \E p \in Procs :
                /\ Persists(p)
                /\ req[p].sessionId = sid
                /\ IsPrefix(MessagesOf(Val(snapshot[p])), MessagesOf(store'[sid]))
                /\ Len(MessagesOf(store'[sid])) = Len(MessagesOf(Val(snapshot[p]))) + 2
                /\ store[sid] = Val(snapshot[p]) =>
                      IsPrefix(MessagesOf(store[sid]), MessagesOf(store'[sid]))]_vars

\* two turns, one after the other, left four messages in the session
C14_Witness ==
    \E p, q \in Procs :
        /\ p # q
        /\ Succeeded(p) /\ Succeeded(q)
        /\ req[p].sessionId = req[q].sessionId
        /\ MessagesOf(Val(snapshot[p])) = <<>>
        /\ Len(MessagesOf(Val(snapshot[q]))) = 2
        /\ Len(store[req[q].sessionId].messages) = 4
        /\ IsPrefix(MessagesOf(Val(snapshot[q])), store[req[q].sessionId].messages)

\* C15: when the extraction parses to an empty mapping nothing is merged:
\* the response's discoveryData is null and the stored discoveryData is what
\* was read, so a category without facts gets no entry, not even an empty one.
C15_EmptyExtractionNoMerge ==
    \A p \in Procs :
        (Succeeded(p) /\ extractionText[p] = Some(JsonOf(EmptyObj))) =>
            /\ res[p].body.discoveryData = None
            /\ store[req[p].sessionId].discoveryData = FactsOf(Val(snapshot[p]))
            /\ ~Has(FactsOf(Val(snapshot[p])), req[p].category)
                  => ~Has(store[req[p].sessionId].discoveryData, req[p].category)

\* an empty extraction on a category without facts, next to one with facts
C15_Witness ==
    \E p \in Procs :
        /\ Succeeded(p)
        /\ extractionText[p] = Some(JsonOf(EmptyObj))
        /\ DOMAIN store[req[p].sessionId].discoveryData = {"security"}
        /\ req[p].category = "infrastructure"
        /\ res[p].body.discoveryData = None

\* C16: a turn that obtained an assistant reply has issued the extraction
\* completion call, whether or not its message carries a completion signal.
C16_ExtractionAlwaysCalled ==
    \A p \in Procs :
        IsSome(response[p]) =>
            /\ gw[p].label = "extraction"
            /\ Len(gw[p].calls) >= 1
            /\ gw[p].calls[1] \in {"gpt-4.1-mini", "gpt-5"}

\* the extraction call of a turn whose message carries no signal was answered
C16_Witness ==
    \E p \in Procs :
        /\ IsSome(response[p])
        /\ req[p].message = msgOk
        /\ gw[p].label = "extraction"
        /\ Len(gw[p].answers) = 1
        /\ pc[p] = "done"

\* the session and completion operations of p that are in flight
InFlight(p) ==
    (IF pc[p] = "read" THEN {"read"} ELSE {})
    \cup (IF pc[p] = "replace" THEN {"replace"} ELSE {})
    \cup (IF gw[p].phase \in {"call1", "call2"} THEN {gw[p].label} ELSE {})

TurnOrder == <<"read", "reply", "extract", "replace">>

\* C17: within a turn the session read, the reply completion, the
\* extraction completion and the session replace happen one after another
\* in this order; never two of them are in flight, and the replace is
\* requested only after both completion calls have settled.
C17_StrictOrder ==
    \A p \in Procs :
        /\ IsPrefix(ops[p], TurnOrder)
        /\ Cardinality(InFlight(p)) <= 1
        /\ pc[p] = "replace" => ops[p] = <<"read", "reply", "extract">>
        /\ (gw[p].phase \in {"call1", "call2"} /\ gw[p].label = "main")
              => ops[p] = <<"read">>
        /\ (gw[p].phase \in {"call1", "call2"} /\ gw[p].label = "extraction")
              => ops[p] = <<"read", "reply">>

\* a turn that went through all four operations, with a fallback call
C17_Witness ==
    \E p \in Procs :
        /\ pc[p] = "done"
        /\ ops[p] = TurnOrder
        /\ Len(gw[p].calls) = 2

\* the completion call of p's turn that the gateway gave up on, if any
ThrewOn(p, label) ==
    pc[p] = "done" /\ gw[p].label = label /\ gw[p].phase = "threw"

\* C18: a completion failure propagated by the gateway, on the reply call or
\* on the extraction call, ends the turn with the error response and
\* nothing is persisted.
C18_CompletionFailureFatal ==
    \A p \in Procs :
        (ThrewOn(p, "main") \/ ThrewOn(p, "extraction")) =>
            /\ res[p].status = 500
            /\ \A i \in 1..Len(ops[p]) : ops[p][i] # "replace"

\* the prompt the code has built in for a category, the generic one otherwise
BuiltInPrompt(category) ==
    CASE category = "infrastructure" -> "You are an IT infrastructure discovery assistant."
      [] category = "security" -> "You are a security discovery assistant."
      [] OTHER -> "You are an M&A onboarding assistant."

\* C19: without a configuration document a turn does not fail for that
\* reason: it uses the built-in prompt of the category (the generic one for
\* an unknown category), sends its completion calls to the environment
\* default deployment, and completes a category on the keyword signal alone.
C19_DefaultsWithoutConfig ==
    \A p \in Procs :
        (~Has(configStore, "discovery_config") /\ pc[p] \notin {"idle", "loadConfig"}) =>
            /\ cfg[p] = None
            /\ systemPrompt[p] = BuiltInPrompt(req[p].category)
            /\ \A i \in 1..Len(gw[p].calls) : gw[p].calls[i] = "gpt-4.1-mini"
            /\ pc[p] = "done" =>
                  /\ res[p].status = 500 =>
                        (~Has(store, req[p].sessionId) \/ ThrewOn(p, "main"))
                  /\ res[p].status = 200 =>
                        res[p].body.categoryComplete = (req[p].message \in SignalMessages)

\* without a configuration, a turn on the unknown category ran with the
\* generic prompt on the default deployment and was completed by "Done"
C19_Witness ==
    \E p \in Procs :
        /\ ~Has(configStore, "discovery_config")
        /\ Succeeded(p)
        /\ req[p].category = "finance"
        /\ req[p].message = msgDone
        /\ systemPrompt[p] = "You are an M&A onboarding assistant."
        /\ gw[p].calls = <<"gpt-4.1-mini">>
        /\ res[p].body.categoryComplete = TRUE

\* C20: a turn on a stored session that lacks messages, discoveryData or
\* the mapping of the category treats the missing container as empty: it
\* fails only when the reply call fails, and the session it stores has
\* messages and discoveryData, built from the empty containers.
C20_LegacySessionNormalized ==
    \A p \in Procs :
        (pc[p] = "done" /\ Has(store, req[p].sessionId)) =>
            LET stored == store[req[p].sessionId] IN
            /\ res[p].status = 500 => ThrewOn(p, "main")
            /\ res[p].status = 200 =>
                  /\ Has(stored, "messages") /\ Has(stored, "discoveryData")
                  /\ stored.messages =
                        MessagesOf(Val(snapshot[p]))
                           \o <<[role |-> "user", content |-> req[p].message],
                                [role |-> "assistant", content |-> res[p].body.response]>>
                  /\ IF IsSome(NewFacts(p))
                     THEN /\ Has(stored.discoveryData, req[p].category)
                          /\ IsShallowUnion(stored.discoveryData[req[p].category],
                                            FactsRead(p), Val(NewFacts(p)))
                     ELSE stored.discoveryData = FactsOf(Val(snapshot[p]))

\* a session read without discoveryData was stored with the turn's facts
C20_Witness ==
    \E p \in Procs :
        /\ Succeeded(p)
        /\ ~Has(Val(snapshot[p]), "discoveryData")
        /\ NewFacts(p) = Some(factsUsers)
        /\ store[req[p].sessionId].discoveryData[req[p].category] = factsUsers
        /\ Len(store[req[p].sessionId].messages) = 4

\* every key of F is in X with F's value
Contains(X, F) == \A k \in DOMAIN F : Has(X, k) /\ X[k] = F[k]

\* C21: merging is idempotent: merging the extracted mapping F into the
\* result of merging F into X gives that result again, so a turn that
\* extracts facts the category already holds, as after a turn that extracted
\* the same facts, leaves the stored facts of the category as they were.
C21_MergeIdempotent ==
    \A p \in Procs :
        (Succeeded(p) /\ IsSome(NewFacts(p))) =>
            LET F == Val(NewFacts(p))
                X == FactsRead(p)
            IN /\ Merge(Merge(X, F), F) = Merge(X, F)
               /\ Merge(StoredFacts(p), F) = StoredFacts(p)
               /\ Contains(X, F) => StoredFacts(p) = X

\* the second of two turns that extracted the same two facts for a category
C21_Witness ==
    \E p \in Procs :
        /\ Succeeded(p)
        /\ Len(Val(snapshot[p]).messages) = 2
        /\ FactsRead(p) = factsUsers
        /\ NewFacts(p) = Some(factsUsers)
        /\ StoredFacts(p) = factsUsers

\* C22: with the primary and the fallback deployment both empty the gateway
\* fails with the configuration error without any completion call; with
\* only the primary empty its single call goes to the fallback deployment.
C22_NoDeploymentNoCall ==
    \A p \in Procs :
        gw[p].phase # "none" =>
            /\ (gw[p].primary = "" /\ gw[p].fallback = "") =>
                  /\ gw[p].calls = <<>>
                  /\ gw[p].answers = <<>>
                  /\ gw[p].phase = "threw"
                  /\ gw[p].result = errNoDeployment
            /\ (gw[p].primary = "" /\ gw[p].fallback # "") =>
                  gw[p].calls = <<gw[p].fallback>>

\* one invocation without any deployment has thrown; another one with the
\* fallback only has called it once, was told it does not exist, and gave up
C22_Witness ==
    \E p, q \in Procs :
        /\ gw[p].primary = "" /\ gw[p].fallback = ""
        /\ gw[p].phase = "threw"
        /\ gw[p].calls = <<>>
        /\ gw[q].primary = "" /\ gw[q].fallback = "gpt-5"
        /\ gw[q].phase = "threw"
        /\ gw[q].calls = <<"gpt-5">>
        /\ gw[q].answers = <<Answer(FALSE, errMissing)>>

\* C23: the discoveryData of a successful turn's response is non-null
\* exactly when the turn's extraction gave a non-empty mapping, and then it
\* is the whole mapping stored for the category after the merge.
C23_ResponseCarriesMergedFacts ==
    \A p \in Procs :
        Succeeded(p) =>
            /\ IsSome(res[p].body.discoveryData) <=> IsSome(NewFacts(p))
            /\ IsSome(NewFacts(p)) =>
                  /\ Has(store[req[p].sessionId].discoveryData, req[p].category)
                  /\ Val(res[p].body.discoveryData) =
                        store[req[p].sessionId].discoveryData[req[p].category]

\* the response holds a fact of an earlier turn next to this turn's two
C23_Witness ==
    \E p \in Procs :
        /\ Succeeded(p)
        /\ FactsRead(p) = factsName
        /\ NewFacts(p) = Some(factsServers)
        /\ DOMAIN Val(res[p].body.discoveryData) =
              {"company_name", "total_users", "server_count"}
        /\ Val(res[p].body.discoveryData)["company_name"] = 1

\* the step in which the store answers the replace of p's handler
Replaces(p, op) ==
    /\ OpOf(p) = op
    /\ Len(ops'[p]) = Len(ops[p]) + 1
    /\ ops'[p][Len(ops'[p])] = "replace"

\* p's handler has answered without a replace
WroteNothing(p) == \A i \in 1..Len(ops[p]) : ops[p][i] # "replace"

\* two documents agree on everything but discoveryData
SameButFacts(a, b) ==
    /\ DOMAIN a \ {"discoveryData"} = DOMAIN b \ {"discoveryData"}
    /\ \A f \in DOMAIN a \ {"discoveryData"} : a[f] = b[f]

\* two documents hold the same categories outside cs, with the same facts
SameOtherCategories(a, b, cs) ==
    /\ DOMAIN FactsOf(a) \ cs = DOMAIN FactsOf(b) \ cs
    /\ \A c \in DOMAIN FactsOf(a) \ cs : FactsOf(a)[c] = FactsOf(b)[c]

\* the update of p put the submitted data in place of the category's mapping
\* and kept the messages and the other categories
DuReplacesCategory(p) ==
    Replaces(p, "discovery-update") =>
        LET sid == req[p].sessionId
            c == req[p].category
        IN /\ res'[p].status = 200
           /\ Has(store'[sid].discoveryData, c)
           /\ store'[sid].discoveryData[c] = req[p].data.value
           /\ SameOtherCategories(store'[sid], store[sid], {c})
           /\ SameButFacts(store'[sid], store[sid])

\* a request without sessionId, category or object data is answered 400, one
\* for an absent session 404, and neither writes
DuRejects(p) ==
    (pc[p] = "done" /\ OpOf(p) = "discovery-update") =>
        /\ (\/ req[p].sessionId = ""
            \/ req[p].category = ""
            \/ req[p].data.kind \in {"missing", "string"}) =>
              (res[p].status = 400 /\ WroteNothing(p))
        /\ (/\ req[p].sessionId # "" /\ req[p].category # ""
            /\ req[p].data.kind = "object"
            /\ ~Has(store, req[p].sessionId)) =>
              (res[p].status = 404 /\ WroteNothing(p))

\* C25: discovery-update replaces the stored mapping of the category by the
\* submitted data as a whole and leaves the messages and the other
\* categories unchanged; a request missing sessionId, category or object
\* data is answered 400, an absent session 404, and neither writes.
C25_DiscoveryUpdateReplacesCategory ==
    /\ [][\A p \in Procs : DuReplacesCategory(p)]_vars
    /\ [](\A p \in Procs : DuRejects(p))

\* an update removed a key of the category and kept the other category
C25_Witness ==
    \E p \in Procs :
        /\ pc[p] = "done" /\ OpOf(p) = "discovery-update" /\ res[p].status = 200
        /\ req[p].category = "infrastructure"
        /\ req[p].data = JsonOf(factsServers)
        /\ FactsOf(Val(snapshot[p])) = ingestTwo
        /\ store[req[p].sessionId].discoveryData["infrastructure"] = factsServers
        /\ store[req[p].sessionId].discoveryData["security"] = factsName

\* the ingest of p merged every category of the output into the stored one,
\* the output's values winning, and kept everything else
FiMergesCategories(p) ==
    Replaces(p, "file-ingest") =>
        LET sid == req[p].sessionId
            out == Val(extractionText[p]).value
        IN /\ res'[p].status = 200
           /\ \A c \in DOMAIN out :
                 /\ Has(store'[sid].discoveryData, c)
                 /\ IsShallowUnion(store'[sid].discoveryData[c],
                                   GetOr(FactsOf(store[sid]), c, EmptyObj), out[c])
           /\ SameOtherCategories(store'[sid], store[sid], DOMAIN out)
           /\ SameButFacts(store'[sid], store[sid])

\* an output that is not JSON is answered 500 without a write
FiParseFailure(p) ==
    (/\ pc[p] = "done" /\ OpOf(p) = "file-ingest"
     /\ extractionText[p] = Some(notJson)) =>
        (res[p].status = 500 /\ WroteNothing(p))

\* C28: file-ingest merges per category by shallow key overwrite: each
\* category of the parsed output becomes the union of the stored mapping and
\* the incoming one, incoming values winning; the other categories and the
\* messages are unchanged; an output that is not JSON gives 500 and no write.
C28_FileIngestMergesPerCategory ==
    /\ [][\A p \in Procs : FiMergesCategories(p)]_vars
    /\ [](\A p \in Procs : FiParseFailure(p))

\* an ingest overwrote one stored fact of a category, kept another one and
\* added a category
C28_Witness ==
    \E p \in Procs :
        /\ pc[p] = "done" /\ OpOf(p) = "file-ingest" /\ res[p].status = 200
        /\ extractionText[p] = Some(JsonOf(ingestTwo))
        /\ FactsOf(Val(snapshot[p])) = ingestServers
        /\ LET stored == store[req[p].sessionId].discoveryData
           IN /\ stored["infrastructure"]["total_users"] = 2
              /\ stored["infrastructure"]["server_count"] = 2
              /\ stored["infrastructure"]["company_name"] = 0
              /\ stored["security"] = factsName

\* the ids of a history, in order
IdsOf(history) == [i \in 1..Len(history) |-> history[i].id]

\* the entries of a history whose id is not planId, in order
Without(history, planId) == SelectSeq(history, LAMBDA h : h.id # planId)

\* a history lists its entries newest first, under pairwise distinct ids
NewestFirstDistinct(history) ==
    \A i, j \in 1..Len(history) :
        i < j => /\ history[i].id # history[j].id
                 /\ history[i].createdAt > history[j].createdAt

\* a save puts one new entry in front of the stored ones
SavePrepends(p) ==
    Replaces(p, "plan-history-save") =>
        LET old == historyOf(store[req[p].sessionId])
            new == historyOf(store'[req[p].sessionId])
        IN /\ res'[p].status = 200
           /\ Len(new) = Len(old) + 1
           /\ SubSeq(new, 2, Len(new)) = old
           /\ \A i \in 1..Len(old) : old[i].id # new[1].id

\* a delete removes the entry named by planId and no other
DeleteRemovesOne(p) ==
    Replaces(p, "plan-history-delete") =>
        LET old == historyOf(store[req[p].sessionId])
            new == historyOf(store'[req[p].sessionId])
        IN /\ res'[p].status = 200
           /\ Len(new) = Len(old) - 1
           /\ new = Without(old, req[p].planId)

\* a delete naming an id that is not in the list is answered 404, unwritten
DeleteUnknownIs404(p) ==
    (/\ pc[p] = "done" /\ OpOf(p) = "plan-history-delete"
     /\ IsSome(snapshot[p])
     /\ \A i \in 1..Len(historyOf(Val(snapshot[p]))) :
           historyOf(Val(snapshot[p]))[i].id # req[p].planId) =>
        /\ res[p].status = 404
        /\ WroteNothing(p)
        /\ store[req[p].sessionId] = Val(snapshot[p])

\* C26: after any sequence of non-overlapping saves and deletes the history
\* lists the surviving entries newest first under pairwise distinct ids: a
\* save puts the new entry in front and keeps the others in order, a delete
\* removes exactly the entry whose id is planId and keeps the order of the
\* rest, and a delete of an id not in the list gives 404 and writes nothing.
C26_HistoryNewestFirst ==
    /\ [][\A p \in Procs : SavePrepends(p) /\ DeleteRemovesOne(p)]_vars
    /\ [](\A sid \in DOMAIN store : NewestFirstDistinct(historyOf(store[sid])))
    /\ [](\A p \in Procs : DeleteUnknownIs404(p))

\* three saves, then the delete of the second entry: the third and the first
\* are left, in this order
C26_Witness ==
    \E p \in Procs :
        /\ pc[p] = "done" /\ OpOf(p) = "plan-history-delete" /\ res[p].status = 200
        /\ req[p].planId = 2
        /\ IdsOf(historyOf(Val(snapshot[p]))) = <<3, 2, 1>>
        /\ IdsOf(historyOf(store[req[p].sessionId])) = <<3, 1>>

\* a save whose backup was skipped or failed answers 200 and its entry
\* carries no blob name
SaveWithoutBlob(p) ==
    (/\ Replaces(p, "plan-history-save")
     /\ Val(response[p]) \in {"skipped", "refused", "uploadFailed"}) =>
        /\ res'[p].status = 200
        /\ historyOf(store'[req[p].sessionId])[1].blobName = None

\* a load answers 200 only for a listed entry with a blob name, 404 for a
\* listed entry without one, and writes nothing
LoadNeedsBlob(p) ==
    (pc[p] = "done" /\ OpOf(p) = "plan-history-load" /\ IsSome(snapshot[p])) =>
        LET history == historyOf(Val(snapshot[p]))
            listed == {i \in 1..Len(history) : history[i].id = req[p].planId}
        IN /\ WroteNothing(p)
           /\ store[req[p].sessionId] = Val(snapshot[p])
           /\ res[p].status = 200 =>
                 \E i \in listed : history[i].blobName # None
           /\ (listed # {} /\ \A i \in listed : history[i].blobName = None) =>
                 /\ res[p].status = 404
                 /\ res[p].body.error = "Plan history entry not found"

\* the list returns every stored entry, with or without a blob name
ListReturnsAll(p) ==
    (pc[p] = "done" /\ OpOf(p) = "plan-history-list" /\ res[p].status = 200) =>
        res[p].body.history = historyOf(store[req[p].sessionId])

\* C27: plan-history-save answers success and records the entry also when
\* the blob backup is skipped or fails, with blobName null; plan-history-load
\* answers 200 only for a listed entry with a blob name and 404 for one
\* saved without a blob, which plan-history-list returns; plan-history-load
\* never writes the session.
C27_SaveWithoutBlobLoad404 ==
    /\ [][\A p \in Procs : SaveWithoutBlob(p)]_vars
    /\ [](\A p \in Procs : LoadNeedsBlob(p) /\ ListReturnsAll(p))

\* the fields of a stored session: none of them records a completed category
SessionFields == {"id", "discoveryData", "messages", "status"}

\* the flag of p's turn starts false and only rises within the turn
FlagRisesOnly(p) ==
    /\ pc'[p] = "loadConfig" => categoryComplete'[p] = FALSE
    /\ (pc'[p] # "loadConfig" /\ categoryComplete[p]) => categoryComplete'[p]

\* C29: completion is not stored: categoryComplete starts false in every
\* turn, only changes from false to true within it, and is computed from the
\* turn's message and the stored facts alone, so a turn without a completion
\* signal returns false also after an earlier turn on the category returned
\* true.
C29_CompletionNotStored ==
    /\ [][\A p \in Procs : FlagRisesOnly(p)]_vars
    /\ [](\A sid \in DOMAIN store :
             /\ DOMAIN store[sid] \subseteq SessionFields
             /\ store[sid].status = "active")
    /\ [](\A p \in Procs :
             Succeeded(p) =>
                /\ res[p].body.categoryComplete =
                      isComplete(loadConfig(configStore), store[req[p].sessionId],
                                 req[p].category, req[p].message)
                /\ req[p].message \notin SignalMessages =>
                      res[p].body.categoryComplete = FALSE)

\* no configuration: the one earlier turn of the session said "Done" and
\* stored facts of the category, so it returned true; this turn says "ok" on
\* the same category and returns false
C29_Witness ==
    \E p \in Procs :
        /\ Succeeded(p)
        /\ ~Has(configStore, "discovery_config")
        /\ Len(Val(snapshot[p]).messages) = 2
        /\ Val(snapshot[p]).messages[1] = Entry("user", msgDone)
        /\ Has(Val(snapshot[p]).discoveryData, req[p].category)
        /\ req[p].message = msgOk
        /\ res[p].body.categoryComplete = FALSE

\* the request of p carries a config whose categories field is an array
CarriesValidConfig(p) ==
    /\ Has(req[p].body, "config")
    /\ req[p].body.config.categories = "array"

\* the step in which the store answers p's upsert
Upserts(p) ==
    /\ OpOf(p) = "admin-config-set"
    /\ Len(ops'[p]) = Len(ops[p]) + 1
    /\ ops'[p][Len(ops'[p])] = "upsert"

\* C30: admin-config-set writes only for a request that carries a config
\* whose categories field is an array, and answers 400 without writing
\* otherwise; an accepted config is upserted under the id discovery_config,
\* so there is at most one configuration document, holding the last accepted
\* config, which is what a chat turn that loads the configuration afterwards
\* reads.
C30_OnlyValidConfigWritten ==
    /\ [][/\ \A p \in Procs :
               Upserts(p) =>
                  /\ CarriesValidConfig(p)
                  /\ res'[p].status = 200
                  /\ configStore' =
                        [k \in {"discovery_config"} |->
                            [id |-> "discovery_config",
                             data |-> req[p].body.config.value]]
          /\ configStore' # configStore => \E p \in Procs : Upserts(p)
          /\ \A p \in Procs :
               (pc[p] = "loadConfig" /\ pc'[p] = "read") =>
                  cfg'[p] = IF Has(configStore, "discovery_config")
                            THEN Some(configStore["discovery_config"].data)
                            ELSE None]_vars
    /\ [](DOMAIN configStore \subseteq {"discovery_config"})
    /\ [](\A p \in Procs :
             (/\ pc[p] = "done" /\ OpOf(p) = "admin-config-set"
              /\ ~CarriesValidConfig(p)) =>
                 /\ res[p].status = 400
                 /\ \A i \in 1..Len(ops[p]) : ops[p][i] # "upsert")

\* the fields of the session a handler changes
FieldsChangedBy(op) ==
    CASE op = "chat-process" -> {"messages", "discoveryData"}
      [] op = "discovery-update" -> {"discoveryData"}
      [] op = "file-ingest" -> {"discoveryData"}
      [] op = "plan-history-save" -> {"planHistory"}
      [] op = "plan-history-delete" -> {"planHistory"}
      [] op = "plan-generate" -> {"executionPlan"}
      [] OTHER -> {}

SessionWriters == {"chat-process", "discovery-update", "file-ingest",
                   "plan-history-save", "plan-history-delete", "plan-generate"}

\* two documents agree outside the fields fs
SameOutside(a, b, fs) ==
    /\ DOMAIN a \ fs = DOMAIN b \ fs
    /\ \A f \in DOMAIN a \ fs : a[f] = b[f]

\* the step in which the store answers the replace of p, whatever its handler
ReplaceStep(p) ==
    /\ Len(ops'[p]) = Len(ops[p]) + 1
    /\ ops'[p][Len(ops'[p])] = "replace"

\* C24: every handler that changes a session replaces the whole document it
\* read, without lock or version check: its replace succeeds whatever is
\* stored by then and stores its own document, which outside the fields the
\* handler changes is the document as it was read, so the later of two
\* overlapping replaces erases the change of the other.
C24_WholeDocumentReplace ==
    [][\A p \in Procs :
          ReplaceStep(p) =>
             /\ OpOf(p) \in SessionWriters
             /\ res'[p].status = 200
             /\ store'[req[p].sessionId] = Val(session[p])
             /\ SameOutside(store'[req[p].sessionId], Val(snapshot[p]),
                            FieldsChangedBy(OpOf(p)))]_vars

\* a chat turn and a discovery-update on the same session both returned 200;
\* the stored messages are those the update read, without the turn's two,
\* and the turn's facts are gone with them
C24_Witness ==
    \E p, q \in Procs :
        /\ Succeeded(p) /\ OpOf(p) = "chat-process"
        /\ pc[q] = "done" /\ OpOf(q) = "discovery-update" /\ res[q].status = 200
        /\ req[p].sessionId = req[q].sessionId
        /\ req[p].category = "infrastructure" /\ req[q].category = "security"
        /\ IsSome(res[p].body.discoveryData)
        /\ store[req[p].sessionId].messages = workedSession.messages
        /\ ~Has(store[req[p].sessionId].discoveryData, "infrastructure")

====
